---------------------------- MODULE Spec2Model ----------------------------
(***************************************************************************)
(* Model of khedhrije/tools-archetype: the check runner (handler.run /      *)
(* runCheck), the scoped file store of pkg/monitoring (SafeFilename,        *)
(* ReadFile, WriteFile, DeleteFile, FilesystemSelfTest), the Services       *)
(* probe, and the HTTP handlers in front of them, in the handler package    *)
(* (DataReadText, DataDelete, ...) and in main.go.                          *)
(*                                                                         *)
(* Strings are sequences of one-character strings, so that filepath.Base,   *)
(* filepath.Join, url.QueryUnescape, strings.TrimSpace and fmt's %q are     *)
(* computed character by character, as the Go functions compute them.      *)
(***************************************************************************)
EXTENDS Integers, Sequences, FiniteSets, TLC

VARIABLES
  fs,        \* the file system: cleaned absolute path -> entry
  writable,  \* whether the volume accepts writes
  last,      \* the last operation served and its outcome
  globals,   \* the package-level variables: the protected sets and Config
  clock,     \* the monotonic clock, in milliseconds
  task,      \* the request being served by the runner, step by step
  reqs,      \* the store requests in flight, one per client
  log        \* the file-system steps of those requests, in the order taken

vars == <<fs, writable, last, globals, clock, task, reqs, log>>

\* the state of requests in flight
inflight == <<clock, task, reqs, log>>

-----------------------------------------------------------------------------
(* Bounds of the model *)

\* longest name handed to SafeFilename / safeFilename in SpecNames
MaxNameLen == 4
\* longest file content written (bytes)
MaxContentLen == 1
\* longest URL list handed to the Services probe
MaxUrls == 2
\* longest probe run, in half milliseconds of the monotonic clock
MaxElapsed == 2
\* last reading of the clock, in milliseconds, while a request is followed
\* step by step
MaxClock == 4

-----------------------------------------------------------------------------
(* Characters and strings *)

Sep == "/"

\* all sequences over S of length at most n
RECURSIVE SeqsUpTo(_, _)
SeqsUpTo(S, n) ==
  IF n = 0 THEN {<<>>}
  ELSE LET shorter == SeqsUpTo(S, n - 1)
       IN shorter \cup {Append(s, c) : s \in {t \in shorter : Len(t) = n - 1}, c \in S}

\* index of the last separator of p, 0 when there is none
LastSep(p) ==
  LET idx == {i \in 1..Len(p) : p[i] = Sep}
  IN IF idx = {} THEN 0 ELSE CHOOSE i \in idx : \A j \in idx : j <= i

\* strings.Contains(s, sub)
Contains(s, sub) ==
  \E i \in 1..(Len(s) - Len(sub) + 1) : SubSeq(s, i, i + Len(sub) - 1) = sub

\* strings.TrimSpace, over the one whitespace character of the model
RECURSIVE TrimSpace(_)
TrimSpace(s) ==
  IF Len(s) > 0 /\ s[1] = " " THEN TrimSpace(Tail(s))
  ELSE IF Len(s) > 0 /\ s[Len(s)] = " " THEN TrimSpace(SubSeq(s, 1, Len(s) - 1))
  ELSE s

-----------------------------------------------------------------------------
(* path/filepath (Unix) *)

RECURSIVE StripTrailingSep(_)
StripTrailingSep(p) ==
  IF Len(p) > 0 /\ p[Len(p)] = Sep
  THEN StripTrailingSep(SubSeq(p, 1, Len(p) - 1))
  ELSE p

\* filepath.Base: the last element of the path, trailing separators removed;
\* "." for the empty path, "/" for a path of separators only
Base(path) ==
  IF path = <<>> THEN <<".">>
  ELSE LET s == StripTrailingSep(path)
           e == SubSeq(s, LastSep(s) + 1, Len(s))
       IN IF e = <<>> THEN <<Sep>> ELSE e

\* the elements of p between separators
RECURSIVE SplitSep(_)
SplitSep(p) ==
  IF \A i \in 1..Len(p) : p[i] # Sep THEN <<p>>
  ELSE LET i == CHOOSE k \in 1..Len(p) : p[k] = Sep /\ \A j \in 1..(k - 1) : p[j] # Sep
       IN <<SubSeq(p, 1, i - 1)>> \o SplitSep(SubSeq(p, i + 1, Len(p)))

RECURSIVE CleanSegs(_, _, _)
CleanSegs(segs, out, rooted) ==
  IF segs = <<>> THEN out
  ELSE LET s == Head(segs)
           rest == Tail(segs)
       IN IF s = <<>> \/ s = <<".">> THEN CleanSegs(rest, out, rooted)
          ELSE IF s = <<".", ".">>
          THEN IF Len(out) > 0 /\ out[Len(out)] # <<".", ".">>
               THEN CleanSegs(rest, SubSeq(out, 1, Len(out) - 1), rooted)
               ELSE IF rooted THEN CleanSegs(rest, out, rooted)
               ELSE CleanSegs(rest, Append(out, s), rooted)
          ELSE CleanSegs(rest, Append(out, s), rooted)

RECURSIVE JoinSegs(_)
JoinSegs(segs) ==
  IF segs = <<>> THEN <<>>
  ELSE IF Len(segs) = 1 THEN segs[1]
  ELSE segs[1] \o <<Sep>> \o JoinSegs(Tail(segs))

\* filepath.Clean
Clean(p) ==
  IF p = <<>> THEN <<".">>
  ELSE LET rooted == p[1] = Sep
           body == JoinSegs(CleanSegs(SplitSep(p), <<>>, rooted))
       IN IF rooted THEN <<Sep>> \o body
          ELSE IF body = <<>> THEN <<".">> ELSE body

\* filepath.Join(dir, name): empty elements are ignored, the result is Cleaned
Join(dir, name) ==
  IF dir = <<>> /\ name = <<>> THEN <<>>
  ELSE IF dir = <<>> THEN Clean(name)
  ELSE IF name = <<>> THEN Clean(dir)
  ELSE Clean(dir \o <<Sep>> \o name)

\* the directory holding the cleaned absolute path p
Parent(p) ==
  LET i == LastSep(p)
  IN IF i <= 1 THEN <<Sep>> ELSE SubSeq(p, 1, i - 1)

-----------------------------------------------------------------------------
(* Filename safety *)

\* a mutant: the last path element is not compared with the name
SafeFilename_NoBaseCheck(name) ==
  ~(name = <<>> \/ name = <<".">> \/ name = <<".", ".">>)

\* monitoring.SafeFilename
SafeFilename(name) ==
  IF name = <<>> \/ name = <<".">> \/ name = <<".", ".">> THEN FALSE
  ELSE Base(name) = name

\* main.safeFilename
safeFilename(name) ==
  IF name = <<>> \/ name = <<".">> \/ name = <<".", ".">> THEN FALSE
  ELSE IF Base(name) # name THEN FALSE
  ELSE TRUE

-----------------------------------------------------------------------------
(* Values: errors, Details, the protected set *)

\* the record of the last operation served, before any was served
Start == [op |-> "start"]

\* a Go error: nil, or a value with a message (which may be empty)
NilErr == [nil |-> TRUE, msg |-> ""]
Err(m) == [nil |-> FALSE, msg |-> m]

\* err.Error()
ErrorMsg(err) == err.msg

\* errString
errString(err) == IF err.nil THEN "" ELSE ErrorMsg(err)

\* monitoring.ErrProtectedFile
ErrProtectedFile == Err("file is protected and cannot be deleted")

\* the errors of the operating system's file calls
ErrNotExist == Err("no such file or directory")
ErrIsDir == Err("is a directory")
ErrNotDir == Err("not a directory")
ErrReadOnly == Err("read-only file system")
ErrNotEmpty == Err("directory not empty")
ErrBusy == Err("device or resource busy")

\* a nil Detail (a nil map, serialised as JSON null)
NilDetail == [null |-> TRUE]

FirstMount == <<".", "f", "i", "r", "s", "t", "-", "m", "o", "u", "n", "t", ".", "s", "h">>
LostFound == <<"l", "o", "s", "t", "+", "f", "o", "u", "n", "d">>

\* a Go map[string]bool: nil, or a function from names to booleans
NilMap == [nil |-> TRUE, m |-> <<>>]

\* the map literal that initialises the package variable protectedFiles of
\* the handler package (and, with the same entries, main.go's)
protectedFiles ==
  [nil |-> FALSE, m |-> (FirstMount :> TRUE) @@ (LostFound :> TRUE)]

\* the index expression protected[name] of a map[string]bool: false for a
\* missing key and for a nil map
MapLookup(map, name) == (~map.nil) /\ name \in DOMAIN map.m /\ map.m[name]

-----------------------------------------------------------------------------
(* The file system: a function from cleaned absolute paths to entries.     *)
(* The root directory always exists and is not an entry.                   *)

Root == <<Sep>>

FileEntry(data) == [isDir |-> FALSE, data |-> data]
DirEntry == [isDir |-> TRUE, data |-> <<>>]

Exists(f, p) == p = Root \/ p \in DOMAIN f
IsDir(f, p) == p = Root \/ (p \in DOMAIN f /\ f[p].isDir)
Children(f, p) == {q \in DOMAIN f : q # p /\ Parent(q) = p}

\* os.ReadFile / os.Open followed by io.ReadAll
osReadFile(f, p) ==
  IF ~Exists(f, p) THEN [err |-> ErrNotExist, data |-> <<>>]
  ELSE IF IsDir(f, p) THEN [err |-> ErrIsDir, data |-> <<>>]
  ELSE [err |-> NilErr, data |-> f[p].data]

\* a mutant of os.WriteFile: an existing file is appended to, not truncated
osWriteFile_Append(f, w, p, data) ==
  IF ~Exists(f, Parent(p)) THEN [err |-> ErrNotExist, fs |-> f]
  ELSE IF ~IsDir(f, Parent(p)) THEN [err |-> ErrNotDir, fs |-> f]
  ELSE IF IsDir(f, p) THEN [err |-> ErrIsDir, fs |-> f]
  ELSE IF ~w THEN [err |-> ErrReadOnly, fs |-> f]
  ELSE [err |-> NilErr,
        fs |-> (p :> FileEntry((IF p \in DOMAIN f THEN f[p].data ELSE <<>>) \o data)) @@ f]

\* os.WriteFile(p, data, 0o644): create or truncate, then write
osWriteFile(f, w, p, data) ==
  IF ~Exists(f, Parent(p)) THEN [err |-> ErrNotExist, fs |-> f]
  ELSE IF ~IsDir(f, Parent(p)) THEN [err |-> ErrNotDir, fs |-> f]
  ELSE IF IsDir(f, p) THEN [err |-> ErrIsDir, fs |-> f]
  ELSE IF ~w THEN [err |-> ErrReadOnly, fs |-> f]
  ELSE [err |-> NilErr, fs |-> (p :> FileEntry(data)) @@ f]

\* os.Remove(p): unlink a file, or rmdir an empty directory
osRemove(f, w, p) ==
  IF ~Exists(f, p) THEN [err |-> ErrNotExist, fs |-> f]
  ELSE IF ~w THEN [err |-> ErrReadOnly, fs |-> f]
  ELSE IF p = Root THEN [err |-> ErrBusy, fs |-> f]
  ELSE IF IsDir(f, p) /\ Children(f, p) # {} THEN [err |-> ErrNotEmpty, fs |-> f]
  ELSE [err |-> NilErr, fs |-> [q \in DOMAIN f \ {p} |-> f[q]]]

-----------------------------------------------------------------------------
(* The scoped file store (pkg/monitoring/monitor.go).  Each operation      *)
(* returns the Detail, the error, the file system after it, and the        *)
(* operating-system calls it made, in order.                               *)

ErrInvalidFilename == Err("invalid filename")

\* monitoring.ReadFile
ReadFile(f, dir, name) ==
  IF ~SafeFilename(name)
  THEN [detail |-> NilDetail, err |-> ErrInvalidFilename, fs |-> f, calls |-> <<>>]
  ELSE LET p == Join(dir, name)
           r == osReadFile(f, p)
       IN IF ~r.err.nil
          THEN [detail |-> NilDetail, err |-> r.err, fs |-> f,
                calls |-> <<<<"ReadFile", p>>>>]
          ELSE [detail |-> [path |-> p, bytes |-> Len(r.data), content |-> r.data],
                err |-> NilErr, fs |-> f, calls |-> <<<<"ReadFile", p>>>>]

\* a mutant: the filename is not checked before the write
WriteFile_NoCheck(f, w, dir, name, content) ==
  LET p == Join(dir, name)
      r == osWriteFile(f, w, p, content)
  IN IF ~r.err.nil
     THEN [detail |-> NilDetail, err |-> r.err, fs |-> r.fs,
           calls |-> <<<<"WriteFile", p>>>>]
     ELSE [detail |-> [written |-> p, bytes |-> Len(content)],
           err |-> NilErr, fs |-> r.fs, calls |-> <<<<"WriteFile", p>>>>]

\* monitoring.WriteFile
WriteFile(f, w, dir, name, content) ==
  IF ~SafeFilename(name)
  THEN [detail |-> NilDetail, err |-> ErrInvalidFilename, fs |-> f, calls |-> <<>>]
  ELSE LET p == Join(dir, name)
           r == osWriteFile(f, w, p, content)
       IN IF ~r.err.nil
          THEN [detail |-> NilDetail, err |-> r.err, fs |-> r.fs,
                calls |-> <<<<"WriteFile", p>>>>]
          ELSE [detail |-> [written |-> p, bytes |-> Len(content)],
                err |-> NilErr, fs |-> r.fs, calls |-> <<<<"WriteFile", p>>>>]

\* a mutant: the protected set is not consulted
DeleteFile_NoProtect(f, w, dir, name, protected) ==
  IF ~SafeFilename(name)
  THEN [detail |-> NilDetail, err |-> ErrInvalidFilename, fs |-> f, calls |-> <<>>,
        protected |-> protected]
  ELSE LET p == Join(dir, name)
           r == osRemove(f, w, p)
       IN IF ~r.err.nil
          THEN [detail |-> NilDetail, err |-> r.err, fs |-> r.fs,
                calls |-> <<<<"Remove", p>>>>, protected |-> protected]
          ELSE [detail |-> [deleted |-> p], err |-> NilErr, fs |-> r.fs,
                calls |-> <<<<"Remove", p>>>>, protected |-> protected]

\* a mutant: the protected set is consulted before the filename is checked
DeleteFile_ProtectFirst(f, w, dir, name, protected) ==
  IF (~protected.nil) /\ MapLookup(protected, name)
  THEN [detail |-> NilDetail, err |-> ErrProtectedFile, fs |-> f, calls |-> <<>>,
        protected |-> protected]
  ELSE IF ~SafeFilename(name)
  THEN [detail |-> NilDetail, err |-> ErrInvalidFilename, fs |-> f, calls |-> <<>>,
        protected |-> protected]
  ELSE LET p == Join(dir, name)
           r == osRemove(f, w, p)
       IN IF ~r.err.nil
          THEN [detail |-> NilDetail, err |-> r.err, fs |-> r.fs,
                calls |-> <<<<"Remove", p>>>>, protected |-> protected]
          ELSE [detail |-> [deleted |-> p], err |-> NilErr, fs |-> r.fs,
                calls |-> <<<<"Remove", p>>>>, protected |-> protected]

\* a mutant: a deleted name is entered in the map the caller passed
DeleteFile_MarksDeleted(f, w, dir, name, protected) ==
  IF ~SafeFilename(name)
  THEN [detail |-> NilDetail, err |-> ErrInvalidFilename, fs |-> f, calls |-> <<>>,
        protected |-> protected]
  ELSE IF (~protected.nil) /\ MapLookup(protected, name)
  THEN [detail |-> NilDetail, err |-> ErrProtectedFile, fs |-> f, calls |-> <<>>,
        protected |-> protected]
  ELSE LET p == Join(dir, name)
           r == osRemove(f, w, p)
       IN IF ~r.err.nil
          THEN [detail |-> NilDetail, err |-> r.err, fs |-> r.fs,
                calls |-> <<<<"Remove", p>>>>, protected |-> protected]
          ELSE [detail |-> [deleted |-> p], err |-> NilErr, fs |-> r.fs,
                calls |-> <<<<"Remove", p>>>>,
                protected |-> IF protected.nil THEN protected
                              ELSE [protected EXCEPT !.m = (name :> TRUE) @@ @]]

\* monitoring.DeleteFile
DeleteFile(f, w, dir, name, protected) ==
  IF ~SafeFilename(name)
  THEN [detail |-> NilDetail, err |-> ErrInvalidFilename, fs |-> f, calls |-> <<>>,
        protected |-> protected]
  ELSE IF (~protected.nil) /\ MapLookup(protected, name)
  THEN [detail |-> NilDetail, err |-> ErrProtectedFile, fs |-> f, calls |-> <<>>,
        protected |-> protected]
  ELSE LET p == Join(dir, name)
           r == osRemove(f, w, p)
       IN IF ~r.err.nil
          THEN [detail |-> NilDetail, err |-> r.err, fs |-> r.fs,
                calls |-> <<<<"Remove", p>>>>, protected |-> protected]
          ELSE [detail |-> [deleted |-> p], err |-> NilErr, fs |-> r.fs,
                calls |-> <<<<"Remove", p>>>>, protected |-> protected]

\* os.ReadDir(dir): the entries of a directory, or an error
osReadDir(f, dir) ==
  IF ~Exists(f, dir) THEN [err |-> ErrNotExist, entries |-> {}]
  ELSE IF ~IsDir(f, dir) THEN [err |-> ErrNotDir, entries |-> {}]
  ELSE [err |-> NilErr, entries |-> Children(f, dir)]

\* one element of the listing: name, isDir, size and fullPath of an entry
\* (modTime is not part of the model's file system; the size of a directory
\* is the file system's own, 0 here)
ListEntry(f, dir, q) ==
  [name |-> Base(q), isDir |-> f[q].isDir, size |-> Len(f[q].data),
   fullPath |-> Join(dir, Base(q))]

\* monitoring.ListDir; "files" holds the entries without their order
ListDir(f, dir) ==
  LET r == osReadDir(f, dir)
  IN IF ~r.err.nil
     THEN [detail |-> NilDetail, err |-> r.err, fs |-> f, calls |-> <<<<"ReadDir", dir>>>>]
     ELSE [detail |-> [dir |-> dir, files |-> {ListEntry(f, dir, q) : q \in r.entries}],
           err |-> NilErr, fs |-> f, calls |-> <<<<"ReadDir", dir>>>>]

-----------------------------------------------------------------------------
(* Filesystem self-test *)

Digits == <<"0", "1", "2", "3", "4", "5", "6", "7", "8", "9">>

\* time.Now().UTC().Format(time.RFC3339Nano), for the clock readings of the model
FormatTime(now) == <<Digits[now + 1]>>

SelfTestName(now) ==
  <<"s", "e", "l", "f", "t", "e", "s", "t", "-">> \o FormatTime(now) \o <<".", "t", "x", "t">>

SelfTestContent(now) ==
  <<"s", "e", "l", "f", "t", "e", "s", "t", " ", "a", "t", " ">> \o FormatTime(now)

\* a mutant: the read and delete steps run also after a failed write
FilesystemSelfTest_NoEarlyReturn(f, w, dir, now) ==
  LET name == SelfTestName(now)
      p == Join(dir, name)
      content == SelfTestContent(now)
      wr == osWriteFile(f, w, p, content)
      rd == osReadFile(wr.fs, p)
      rm == osRemove(wr.fs, w, p)
  IN [detail |-> [dir |-> dir, file |-> name, writeBytes |-> Len(content),
                  readBytes |-> Len(rd.data), match |-> (rd.data = content),
                  deleteErr |-> errString(rm.err)],
      err |-> NilErr, fs |-> rm.fs,
      calls |-> <<<<"WriteFile", p>>, <<"Open", p>>, <<"ReadAll", p>>, <<"Remove", p>>>>]

\* monitoring.FilesystemSelfTest
FilesystemSelfTest(f, w, dir, now) ==
  LET name == SelfTestName(now)
      p == Join(dir, name)
      content == SelfTestContent(now)
      wr == osWriteFile(f, w, p, content)
      rd == osReadFile(wr.fs, p)
      rm == osRemove(wr.fs, w, p)
  IN IF ~wr.err.nil
     THEN [detail |-> [step |-> "write", path |-> p], err |-> wr.err, fs |-> wr.fs,
           calls |-> <<<<"WriteFile", p>>>>]
     ELSE IF ~rd.err.nil
     THEN [detail |-> [step |-> "open", path |-> p], err |-> rd.err, fs |-> wr.fs,
           calls |-> <<<<"WriteFile", p>>, <<"Open", p>>>>]
     ELSE [detail |-> [dir |-> dir, file |-> name, writeBytes |-> Len(content),
                       readBytes |-> Len(rd.data), match |-> (rd.data = content),
                       deleteErr |-> errString(rm.err)],
           err |-> NilErr, fs |-> rm.fs,
           calls |-> <<<<"WriteFile", p>>, <<"Open", p>>, <<"ReadAll", p>>, <<"Remove", p>>>>]

-----------------------------------------------------------------------------
(* The check runner *)

\* time.Duration.Milliseconds(): whole milliseconds of a duration in nanoseconds
Milliseconds(d) == d \div 1000000

\* a mutant: the error branch answers 200 and leaves the error message out
run_ErrorAsOk(name, timeout, pr, elapsed) ==
  [code |-> 200, kind |-> "json",
   body |-> [status |-> IF pr.err.nil THEN "ok" ELSE "error", name |-> name,
             latencyMs |-> Milliseconds(elapsed), detail |-> pr.detail]]

\* a mutant: an error counts only when its message is not empty
run_StatusByMessage(name, timeout, pr, elapsed) ==
  LET lat == Milliseconds(elapsed)
  IN IF ~pr.err.nil /\ ErrorMsg(pr.err) # ""
     THEN [code |-> 503, kind |-> "json",
           body |-> [status |-> "error", name |-> name, latencyMs |-> lat,
                     error |-> ErrorMsg(pr.err), detail |-> pr.detail]]
     ELSE [code |-> 200, kind |-> "json",
           body |-> [status |-> "ok", name |-> name, latencyMs |-> lat,
                     detail |-> pr.detail]]

\* handler.run (and main.runCheck): pr is what the probe fn returned, elapsed
\* the monotonic time between time.Now() and time.Since(start)
run(name, timeout, pr, elapsed) ==
  LET lat == Milliseconds(elapsed)
  IN IF ~pr.err.nil
     THEN [code |-> 503, kind |-> "json",
           body |-> [status |-> "error", name |-> name, latencyMs |-> lat,
                     error |-> ErrorMsg(pr.err), detail |-> pr.detail]]
     ELSE [code |-> 200, kind |-> "json",
           body |-> [status |-> "ok", name |-> name, latencyMs |-> lat,
                     detail |-> pr.detail]]

\* one invocation of the runner: what it was given, what the probe returned
\* and the response it wrote
RunRec(name, timeout, pr, elapsed) ==
  [name |-> name, timeout |-> timeout, detail |-> pr.detail, err |-> pr.err,
   elapsed |-> elapsed, resp |-> run(name, timeout, pr, elapsed)]

-----------------------------------------------------------------------------
(* The runner step by step: handler.run enters, derives the context, calls *)
(* the probe and waits for it to return, then writes the envelope.  Time   *)
(* is the clock in milliseconds.                                           *)

\* a context without a deadline
NoDeadline == -1

\* c.Request.Context(): the request's context, with the deadline a caller
\* may have set and whether it has been cancelled (the client went away)
RequestCtx(deadline) == [deadline |-> deadline, cancelled |-> FALSE]

\* context.WithTimeout(parent, timeout) at time now: the child's deadline is
\* now + timeout, or the parent's when that is earlier
WithTimeout(parent, now, timeout) ==
  [deadline |-> IF parent.deadline # NoDeadline /\ parent.deadline < now + timeout
                THEN parent.deadline
                ELSE now + timeout]

\* whether ctx.Done() of the runner's context is closed at time now: its
\* deadline has passed, or the parent was cancelled
CtxDone(t, now) == now >= t.ctx.deadline \/ t.parent.cancelled

\* ctx.Err() once the context is done
CtxErr(t, now) ==
  IF t.parent.cancelled /\ now < t.ctx.deadline
  THEN Err("context canceled")
  ELSE Err("context deadline exceeded")

\* no response written yet
NoResp == [code |-> 0, kind |-> "none", body |-> [none |-> TRUE]]

\* run, lines 55-59: start is read, the context derived and fn(ctx) called.
\* polls tells whether the probe observes ctx, work is the time it needs on
\* its own and outcome what it returns when it completes.
RunEntered(name, timeout, parent, polls, work, outcome, now) ==
  [pc |-> "probe", name |-> name, timeout |-> timeout, start |-> now,
   parent |-> parent, ctx |-> WithTimeout(parent, now, timeout),
   polls |-> polls, work |-> work, outcome |-> outcome, invoked |-> 1,
   returnedAt |-> -1, pr |-> [detail |-> NilDetail, err |-> NilErr],
   resp |-> NoResp, respondedAt |-> -1]

\* the probe has completed its own work
ProbeComplete(t, now) == now >= t.start + t.work

\* fn(ctx) can return at time now: it has completed, or it observes the
\* context and the context is done
ProbeCanReturn(t, now) ==
  t.pc = "probe" /\ (ProbeComplete(t, now) \/ (t.polls /\ CtxDone(t, now)))

\* what fn(ctx) returns at time now
ProbeResult(t, now) ==
  IF ProbeComplete(t, now) THEN t.outcome
  ELSE [detail |-> t.outcome.detail, err |-> CtxErr(t, now)]

\* a mutant: the runner also answers once the context is done, without
\* waiting for fn to return
RunCanRespond_OnDone(t, now) ==
  t.pc = "returned" \/ (t.pc = "probe" /\ CtxDone(t, now))

\* run, lines 59-60: the runner goes on only when fn(ctx) has returned
RunCanRespond(t, now) == t.pc = "returned"

\* run, lines 60-77: the latency is taken and the envelope written
RunResponded(t, now) ==
  [t EXCEPT !.pc = "done",
            !.resp = run(t.name, t.timeout, t.pr, (now - t.start) * 1000000),
            !.respondedAt = now]

-----------------------------------------------------------------------------
(* The query parameter: net/url's decoding behind gin's c.Query("file") *)

HexDigits ==
  {"0", "1", "2", "3", "4", "5", "6", "7", "8", "9",
   "a", "b", "c", "d", "e", "f", "A", "B", "C", "D", "E", "F"}

\* the byte a %XY escape stands for; "?" is any byte other than the ones named
HexByte(h, l) ==
  IF h = "2" /\ l \in {"B", "b"} THEN "+"
  ELSE IF h = "2" /\ l \in {"F", "f"} THEN "/"
  ELSE IF h = "2" /\ l \in {"E", "e"} THEN "."
  ELSE IF h = "2" /\ l = "0" THEN " "
  ELSE IF h = "2" /\ l = "5" THEN "%"
  ELSE "?"

\* a mutant: the value is taken undecoded
QueryUnescape_Identity(s) == [ok |-> TRUE, val |-> s]

\* url.QueryUnescape: "+" is a space, %XY a byte, a malformed escape an error
RECURSIVE QueryUnescape(_)
QueryUnescape(s) ==
  IF s = <<>> THEN [ok |-> TRUE, val |-> <<>>]
  ELSE IF s[1] = "%"
  THEN IF Len(s) < 3 \/ s[2] \notin HexDigits \/ s[3] \notin HexDigits
       THEN [ok |-> FALSE, val |-> <<>>]
       ELSE LET r == QueryUnescape(SubSeq(s, 4, Len(s)))
            IN IF r.ok THEN [ok |-> TRUE, val |-> <<HexByte(s[2], s[3])>> \o r.val]
               ELSE r
  ELSE LET r == QueryUnescape(Tail(s))
           c == IF s[1] = "+" THEN " " ELSE s[1]
       IN IF r.ok THEN [ok |-> TRUE, val |-> <<c>> \o r.val] ELSE r

\* a request's "file" parameter: absent, or present with a raw (encoded) value
NoParam == [present |-> FALSE, raw |-> <<>>]
Param(raw) == [present |-> TRUE, raw |-> raw]

\* c.Query("file"): "" when the parameter is absent or does not decode
Query(q) ==
  IF ~q.present THEN <<>>
  ELSE LET d == QueryUnescape(q.raw) IN IF d.ok THEN d.val ELSE <<>>

\* fmt's %q: the string in double quotes, quotes and backslashes escaped
RECURSIVE EscapeChars(_)
EscapeChars(s) ==
  IF s = <<>> THEN <<>>
  ELSE (IF s[1] \in {"\"", "\\"} THEN <<"\\", s[1]>> ELSE <<s[1]>>) \o EscapeChars(Tail(s))

GoQuote(s) == <<"\"">> \o EscapeChars(s) \o <<"\"">>

-----------------------------------------------------------------------------
(* The handlers of the handler package (src/unnamed/part_001).  Each       *)
(* returns the response written, the file system after it, the operating-  *)
(* system calls made and the store operations invoked.                     *)

\* configuration.Config.AppDataDir
AppDataDir == <<Sep, "d">>

MsgMissingParam == "missing 'file' query param"
MsgProtectedTail == " is protected and cannot be deleted"

\* handler.DataReadText
DataReadText(f, q) ==
  LET name == TrimSpace(Query(q))
      r == ReadFile(f, AppDataDir, name)
  IN IF name = <<>>
     THEN [resp |-> [code |-> 400, kind |-> "text", body |-> MsgMissingParam],
           fs |-> f, calls |-> <<>>, store |-> <<>>, ran |-> <<>>]
     ELSE IF ~r.err.nil
     THEN [resp |-> [code |-> 404, kind |-> "text", body |-> ErrorMsg(r.err)],
           fs |-> r.fs, calls |-> r.calls, store |-> <<"ReadFile">>, ran |-> <<>>]
     ELSE [resp |-> [code |-> 200, kind |-> "data", body |-> r.detail.content],
           fs |-> r.fs, calls |-> r.calls, store |-> <<"ReadFile">>, ran |-> <<>>]

\* a mutant: the route does not check the protected set itself
DataDelete_NoRouteCheck(f, w, q, elapsed) ==
  LET name == TrimSpace(Query(q))
      r == DeleteFile(f, w, AppDataDir, name, globals.protectedFiles)
  IN IF name = <<>>
     THEN [resp |-> [code |-> 400, kind |-> "json", body |-> [error |-> MsgMissingParam]],
           fs |-> f, calls |-> <<>>, store |-> <<>>, ran |-> <<>>,
           protected |-> globals.protectedFiles]
     ELSE [resp |-> run("data-delete", 1500, r, elapsed),
           fs |-> r.fs, calls |-> r.calls, store |-> <<"DeleteFile">>,
           ran |-> <<RunRec("data-delete", 1500, r, elapsed)>>,
           protected |-> r.protected]

\* handler.DataDelete: the package variable protectedFiles is indexed by the
\* route and handed, by reference, to DeleteFile; "protected" is the map
\* as the handler leaves it
DataDelete(f, w, q, elapsed) ==
  LET name == TrimSpace(Query(q))
      r == DeleteFile(f, w, AppDataDir, name, globals.protectedFiles)
  IN IF name = <<>>
     THEN [resp |-> [code |-> 400, kind |-> "json", body |-> [error |-> MsgMissingParam]],
           fs |-> f, calls |-> <<>>, store |-> <<>>, ran |-> <<>>,
           protected |-> globals.protectedFiles]
     ELSE IF MapLookup(globals.protectedFiles, name)
     THEN [resp |-> [code |-> 403, kind |-> "json",
                     body |-> [error |-> GoQuote(name) \o <<MsgProtectedTail>>]],
           fs |-> f, calls |-> <<>>, store |-> <<>>, ran |-> <<>>,
           protected |-> globals.protectedFiles]
     ELSE [resp |-> run("data-delete", 1500, r, elapsed),
           fs |-> r.fs, calls |-> r.calls, store |-> <<"DeleteFile">>,
           ran |-> <<RunRec("data-delete", 1500, r, elapsed)>>,
           protected |-> r.protected]

\* handler.DataList
DataList(f, elapsed) ==
  LET r == ListDir(f, AppDataDir)
  IN [resp |-> run("data-list", 1500, r, elapsed),
      fs |-> r.fs, calls |-> r.calls, store |-> <<"ListDir">>,
      ran |-> <<RunRec("data-list", 1500, r, elapsed)>>]

\* handler.FilesystemSelfTest
SelfTestHandler(f, w, now, elapsed) ==
  LET r == FilesystemSelfTest(f, w, AppDataDir, now)
  IN [resp |-> run("fs-selftest", 1500, r, elapsed),
      fs |-> r.fs, calls |-> r.calls, store |-> <<"FilesystemSelfTest">>,
      ran |-> <<RunRec("fs-selftest", 1500, r, elapsed)>>]

-----------------------------------------------------------------------------
(* The handlers of main.go *)

MsgMissingOrInvalid == "missing or invalid file query param"

\* main.go: GET /data/list
MainDataList(f) ==
  LET r == osReadDir(f, AppDataDir)
  IN IF ~r.err.nil
     THEN [resp |-> [code |-> 500, kind |-> "json", body |-> [error |-> ErrorMsg(r.err)]],
           fs |-> f, calls |-> <<<<"ReadDir", AppDataDir>>>>, store |-> <<>>, ran |-> <<>>]
     ELSE [resp |-> [code |-> 200, kind |-> "json",
                     body |-> [dir |-> AppDataDir,
                               files |-> {ListEntry(f, AppDataDir, q) : q \in r.entries}]],
           fs |-> f, calls |-> <<<<"ReadDir", AppDataDir>>>>, store |-> <<>>, ran |-> <<>>]

\* main.go: GET /data/read
MainDataRead(f, q) ==
  LET name == Query(q)
      p == Join(AppDataDir, name)
      r == osReadFile(f, p)
  IN IF name = <<>> \/ ~safeFilename(name)
     THEN [resp |-> [code |-> 400, kind |-> "json", body |-> [error |-> MsgMissingOrInvalid]],
           fs |-> f, calls |-> <<>>, store |-> <<>>, ran |-> <<>>]
     ELSE IF ~r.err.nil
     THEN IF r.err = ErrNotExist
          THEN [resp |-> [code |-> 404, kind |-> "json", body |-> [error |-> "not found"]],
                fs |-> f, calls |-> <<<<"ReadFile", p>>>>, store |-> <<>>, ran |-> <<>>]
          ELSE [resp |-> [code |-> 500, kind |-> "json", body |-> [error |-> ErrorMsg(r.err)]],
                fs |-> f, calls |-> <<<<"ReadFile", p>>>>, store |-> <<>>, ran |-> <<>>]
     ELSE [resp |-> [code |-> 200, kind |-> "data", body |-> r.data],
           fs |-> f, calls |-> <<<<"ReadFile", p>>>>, store |-> <<>>, ran |-> <<>>]

\* main.go: DELETE /data/
MainDataDelete(f, w, q) ==
  LET name == Query(q)
      p == Join(AppDataDir, name)
      r == osRemove(f, w, p)
  IN IF name = <<>> \/ ~safeFilename(name)
     THEN [resp |-> [code |-> 400, kind |-> "json", body |-> [error |-> MsgMissingOrInvalid]],
           fs |-> f, calls |-> <<>>, store |-> <<>>, ran |-> <<>>]
     ELSE IF MapLookup(globals.mainProtectedFiles, name)
     THEN [resp |-> [code |-> 403, kind |-> "json",
                     body |-> [error |-> "file is protected and cannot be deleted"]],
           fs |-> f, calls |-> <<>>, store |-> <<>>, ran |-> <<>>]
     ELSE IF ~r.err.nil
     THEN [resp |-> [code |-> 500, kind |-> "json", body |-> [error |-> ErrorMsg(r.err)]],
           fs |-> r.fs, calls |-> <<<<"Remove", p>>>>, store |-> <<>>, ran |-> <<>>]
     ELSE [resp |-> [code |-> 200, kind |-> "json", body |-> [deleted |-> p]],
           fs |-> r.fs, calls |-> <<<<"Remove", p>>>>, store |-> <<>>, ran |-> <<>>]

-----------------------------------------------------------------------------
(* The Services probe *)

UrlOk == "http://ok.example"
UrlDown == "http://down.example"
\* a URL that url.Parse rejects (first path segment in URL cannot contain colon)
UrlMalformed == "127.0.0.1:80"

\* whether http.NewRequestWithContext(ctx, "GET", u, nil) returns a request
\* (and a nil error): it does unless u does not parse as a URL
ParsesAsURL(u) == u # UrlMalformed

\* The loop of monitoring.Services over urls; outs[i] is what the network
\* answers to the i-th GET: [kind |-> "fail", msg] or [kind |-> "resp", code].
\* The error of httpNewRequestWithContext is discarded (req, _ :=), so for a
\* URL that does not parse req is nil and client.Do(req) dereferences it: the
\* probe panics.
RECURSIVE ServicesLoop(_, _, _, _, _)
ServicesLoop(urls, outs, results, allOK, gets) ==
  IF urls = <<>>
  THEN [panic |-> FALSE, results |-> results, allOK |-> allOK, gets |-> gets]
  ELSE LET u == Head(urls)
           o == Head(outs)
       IN IF ~ParsesAsURL(u)
          THEN [panic |-> TRUE, results |-> results, allOK |-> allOK, gets |-> gets]
          ELSE IF o.kind = "fail"
          THEN ServicesLoop(Tail(urls), Tail(outs),
                            (u :> [status |-> "error", error |-> o.msg]) @@ results,
                            FALSE, Append(gets, u))
          ELSE IF o.code >= 200 /\ o.code < 300
          THEN ServicesLoop(Tail(urls), Tail(outs),
                            (u :> [status |-> "ok", code |-> o.code]) @@ results,
                            allOK, Append(gets, u))
          ELSE ServicesLoop(Tail(urls), Tail(outs),
                            (u :> [status |-> "degraded", code |-> o.code]) @@ results,
                            FALSE, Append(gets, u))

\* monitoring.Services
Services(urls, outs) ==
  LET l == ServicesLoop(urls, outs, <<>>, TRUE, <<>>)
  IN IF l.panic
     THEN [panic |-> TRUE, detail |-> NilDetail, err |-> NilErr, gets |-> l.gets]
     ELSE IF ~l.allOK
     THEN [panic |-> FALSE, detail |-> [services |-> l.results],
           err |-> Err("one or more services failing"), gets |-> l.gets]
     ELSE [panic |-> FALSE, detail |-> [services |-> l.results],
           err |-> NilErr, gets |-> l.gets]

\* handler.Services: items are the comma-separated elements of
\* APP_CHECK_SERVICE_URLS, trimmed; blank ones are dropped and an empty list
\* is replaced by the default URL
UrlDefault == "https://api.github.com"

RECURSIVE DropBlank(_)
DropBlank(items) ==
  IF items = <<>> THEN <<>>
  ELSE IF Head(items) = "" THEN DropBlank(Tail(items))
  ELSE <<Head(items)>> \o DropBlank(Tail(items))

ServiceUrls(items) ==
  LET urls == DropBlank(items) IN IF urls = <<>> THEN <<UrlDefault>> ELSE urls

\* the response of a handler whose probe panicked: gin.Recovery answers 500
\* and no envelope is written
RecoveryResp == [code |-> 500, kind |-> "none", body |-> <<>>]

ServicesHandler(items, outs, elapsed) ==
  LET urls == ServiceUrls(items)
      r == Services(urls, outs)
  IN IF r.panic
     THEN [resp |-> RecoveryResp, probe |-> r, urls |-> urls, ran |-> <<>>]
     ELSE [resp |-> run("services", 2500, r, elapsed), probe |-> r, urls |-> urls,
           ran |-> <<RunRec("services", 2500, r, elapsed)>>]

-----------------------------------------------------------------------------
(* Inputs *)

Bytes == {0, 1}
Contents == SeqsUpTo(Bytes, MaxContentLen)

\* a file outside the data directory, and its content
OutsidePath == <<Sep, "p">>
Secret == <<9>>

NameChars == {Sep, ".", "a"}
Names == SeqsUpTo(NameChars, MaxNameLen)

Traversal == <<".", ".", Sep, "p">>

\* the names handed to the store's operations
StoreNames ==
  {<<>>, <<".">>, <<".", ".">>, <<Sep>>, <<"a">>, <<"a", Sep>>, Traversal, LostFound}

\* the raw values of the "file" query parameter
RawQueries ==
  {NoParam} \cup
  {Param(n) : n \in StoreNames \cup {FirstMount}} \cup
  {Param(<<"l", "o", "s", "t", "%", "2", "B", "f", "o", "u", "n", "d">>),
   Param(<<".", ".", "%", "2", "F", "p">>),
   Param(<<"%", "2", "F">>),
   Param(<<"+", "a">>),
   Param(<<"%">>),
   Param(<<"+">>)}

Elapsed == {k * 500000 : k \in 0..MaxElapsed}

\* readings of the wall clock
Times == 0..1

ProbeDetails == {NilDetail, [mode |-> "tcp", addr |-> "db:5432"]}
ProbeErrs == {NilErr, Err(""), Err("dial timeout")}
ProbeNames == {"database"}

Outcomes ==
  {[kind |-> "fail", msg |-> "connection refused", code |-> 0],
   [kind |-> "resp", msg |-> "", code |-> 200],
   [kind |-> "resp", msg |-> "", code |-> 299],
   [kind |-> "resp", msg |-> "", code |-> 300],
   [kind |-> "resp", msg |-> "", code |-> 500]}

\* the maps handed to DeleteFile by a caller of the package: none, the
\* handler's, and one of the caller's own that holds an unsafe name and a
\* name with the value false
CallerMap ==
  [nil |-> FALSE, m |-> (Traversal :> TRUE) @@ (<<"a">> :> TRUE) @@ (LostFound :> FALSE)]
ProtectedMaps == {NilMap, protectedFiles, CallerMap}

EnvItems == {"", UrlOk, UrlDown, UrlMalformed}

-----------------------------------------------------------------------------
(* Initial states: the data directory as the process finds it, and the     *)
(* package-level variables as initialised at process start                 *)

BaseFs == (AppDataDir :> DirEntry) @@ (OutsidePath :> FileEntry(Secret))

InitDirs ==
  {BaseFs @@ lf @@ fm @@ ua :
     lf \in {<<>>, (Join(AppDataDir, LostFound) :> DirEntry)},
     fm \in {<<>>, (Join(AppDataDir, FirstMount) :> FileEntry(<<1>>))},
     ua \in {<<>>, (Join(AppDataDir, <<"a">>) :> FileEntry(<<0>>))}}

\* configuration.DatabaseConfig as loadFromEnv fills it when only APP_DB_ADDR
\* is set (viper.GetString gives "" and viper.GetInt 0 for an unset variable)
DatabaseAddrOnly ==
  [Host |-> "", Port |-> 0, Name |-> "", Username |-> "", Password |-> "",
   SSL |-> "", Addr |-> "db:5432"]

\* configuration.Config after init()
ConfigOf(db) == [AppDataDir |-> AppDataDir, DatabaseConfig |-> db]

\* the package-level variables of the process: protectedFiles of the handler
\* package, protectedFiles of main.go, configuration.Config
GlobalsOf(db) ==
  [protectedFiles |-> protectedFiles,
   mainProtectedFiles |-> protectedFiles,
   Config |-> ConfigOf(db)]

\* no request is in flight
IdleTask == [pc |-> "idle"]
Clients == {1, 2}
IdleReq == [pc |-> "idle"]

InitInflight ==
  /\ clock = 0
  /\ task = IdleTask
  /\ reqs = [c \in Clients |-> IdleReq]
  /\ log = <<>>

Init ==
  /\ fs \in InitDirs
  /\ writable \in BOOLEAN
  /\ last = Start
  /\ globals = GlobalsOf(DatabaseAddrOnly)
  /\ InitInflight

\* what a store operation returned, without the file system
Out(r) == [detail |-> r.detail, err |-> r.err, calls |-> r.calls]

-----------------------------------------------------------------------------
(* Actions *)

SafeFilenameCall(name) ==
  /\ last' = [op |-> "SafeFilename", name |-> name, ok |-> SafeFilename(name)]
  /\ UNCHANGED <<fs, writable, globals, inflight>>

safeFilenameCall(name) ==
  /\ last' = [op |-> "safeFilename", name |-> name, ok |-> safeFilename(name)]
  /\ UNCHANGED <<fs, writable, globals, inflight>>

ReadFileCall(name) ==
  LET r == ReadFile(fs, AppDataDir, name)
  IN /\ fs' = r.fs
     /\ last' = [op |-> "ReadFile", name |-> name, out |-> Out(r)]
     /\ UNCHANGED <<writable, globals, inflight>>

WriteFileCall(name, content) ==
  LET r == WriteFile(fs, writable, AppDataDir, name, content)
  IN /\ fs' = r.fs
     /\ last' = [op |-> "WriteFile", name |-> name, content |-> content, out |-> Out(r)]
     /\ UNCHANGED <<writable, globals, inflight>>

\* DeleteFile called with a map of the caller's own
DeleteFileCall(name, protected) ==
  LET r == DeleteFile(fs, writable, AppDataDir, name, protected)
  IN /\ fs' = r.fs
     /\ last' = [op |-> "DeleteFile", name |-> name, protected |-> protected, out |-> Out(r)]
     /\ UNCHANGED <<writable, globals, inflight>>

\* DeleteFile called with the package's protected set, which it receives by
\* reference
DeleteProtectedCall(name) ==
  LET r == DeleteFile(fs, writable, AppDataDir, name, globals.protectedFiles)
  IN /\ fs' = r.fs
     /\ last' = [op |-> "DeleteFile", name |-> name,
                 protected |-> globals.protectedFiles, out |-> Out(r)]
     /\ globals' = [globals EXCEPT !.protectedFiles = r.protected]
     /\ UNCHANGED <<writable, inflight>>

Handled(op, in, h) ==
  /\ fs' = h.fs
  /\ last' = [op |-> op, in |-> in, resp |-> h.resp, calls |-> h.calls,
              store |-> h.store, ran |-> h.ran]
  /\ UNCHANGED <<writable, inflight>>

DataReadTextReq(q) ==
  /\ Handled("DataReadText", q, DataReadText(fs, q))
  /\ UNCHANGED globals

DataDeleteReq(q, elapsed) ==
  LET h == DataDelete(fs, writable, q, elapsed)
  IN /\ Handled("DataDelete", q, h)
     /\ globals' = [globals EXCEPT !.protectedFiles = h.protected]

SelfTestReq(now, elapsed) ==
  /\ Handled("FilesystemSelfTest", now, SelfTestHandler(fs, writable, now, elapsed))
  /\ UNCHANGED globals

MainDataReadReq(q) ==
  /\ Handled("MainDataRead", q, MainDataRead(fs, q))
  /\ UNCHANGED globals

DataListReq(elapsed) ==
  /\ Handled("DataList", NoParam, DataList(fs, elapsed))
  /\ UNCHANGED globals

MainDataListReq ==
  /\ Handled("MainDataList", NoParam, MainDataList(fs))
  /\ UNCHANGED globals

MainDataDeleteReq(q) ==
  /\ Handled("MainDataDelete", q, MainDataDelete(fs, writable, q))
  /\ UNCHANGED globals

\* the runner with an arbitrary probe: the probe returns (detail, err) after
\* elapsed nanoseconds
RunProbe(name, detail, err, elapsed) ==
  LET rec == RunRec(name, 1500, [detail |-> detail, err |-> err], elapsed)
  IN /\ last' = [op |-> "run", in |-> name, resp |-> rec.resp, calls |-> <<>>,
                 store |-> <<>>, ran |-> <<rec>>]
     /\ UNCHANGED <<fs, writable, globals, inflight>>

ServicesReq(items, outs, elapsed) ==
  LET h == ServicesHandler(items, outs, elapsed)
  IN /\ last' = [op |-> "Services", in |-> items, outs |-> outs, urls |-> h.urls,
                 probe |-> h.probe, resp |-> h.resp, ran |-> h.ran]
     /\ UNCHANGED <<fs, writable, globals, inflight>>

\* The handler package and main.go serving requests, and DeleteFile called
\* directly with the protected set.
Next ==
  \/ \E q \in RawQueries : DataReadTextReq(q)
  \/ \E q \in RawQueries, elapsed \in Elapsed : DataDeleteReq(q, elapsed)
  \/ \E now \in Times, elapsed \in Elapsed : SelfTestReq(now, elapsed)
  \/ \E q \in RawQueries : MainDataReadReq(q)
  \/ \E q \in RawQueries : MainDataDeleteReq(q)
  \/ \E elapsed \in Elapsed : DataListReq(elapsed)
  \/ MainDataListReq
  \/ \E name \in StoreNames : DeleteProtectedCall(name)
  \/ \E name \in ProbeNames, detail \in ProbeDetails, err \in ProbeErrs, elapsed \in Elapsed :
       RunProbe(name, detail, err, elapsed)

Spec == Init /\ [][Next]_vars

\* The store's operations called directly, with any name, content and
\* protected set.
NextStore ==
  \/ \E name \in StoreNames : ReadFileCall(name)
  \/ \E name \in StoreNames, content \in Contents : WriteFileCall(name, content)
  \/ \E name \in StoreNames, protected \in ProtectedMaps :
       DeleteFileCall(name, protected)

SpecStore == Init /\ [][NextStore]_vars

\* The filename check applied once to a name of at most MaxNameLen characters.
NextNames ==
  \/ last.op = "start" /\ \E name \in Names : SafeFilenameCall(name)
  \/ last.op = "start" /\ \E name \in Names : safeFilenameCall(name)

SpecNames == Init /\ [][NextNames]_vars

\* One services check: the requests are independent, nothing is kept
\* between them.
NextServices ==
  /\ last.op = "start"
  /\ \E items \in SeqsUpTo(EnvItems, MaxUrls) :
       \E outs \in [1..Len(ServiceUrls(items)) -> Outcomes], elapsed \in Elapsed :
         ServicesReq(items, outs, elapsed)

SpecServices == Init /\ [][NextServices]_vars

\* the runner enters with a probe
RunEnter(name, timeout, deadline, polls, work, outcome) ==
  /\ task.pc = "idle"
  /\ task' = RunEntered(name, timeout, RequestCtx(deadline), polls, work, outcome, clock)
  /\ UNCHANGED <<fs, writable, last, globals, clock, reqs, log>>

\* time passes
Tick ==
  /\ clock < MaxClock
  /\ clock' = clock + 1
  /\ UNCHANGED <<fs, writable, last, globals, task, reqs, log>>

\* the client goes away while the probe runs: the request's context is
\* cancelled
ClientCancel ==
  /\ task.pc = "probe"
  /\ ~task.parent.cancelled
  /\ task' = [task EXCEPT !.parent.cancelled = TRUE]
  /\ UNCHANGED <<fs, writable, last, globals, clock, reqs, log>>

\* fn(ctx) returns
ProbeReturn ==
  /\ ProbeCanReturn(task, clock)
  /\ task' = [task EXCEPT !.pc = "returned", !.returnedAt = clock,
                          !.pr = ProbeResult(task, clock)]
  /\ UNCHANGED <<fs, writable, last, globals, clock, reqs, log>>

\* the runner writes the envelope
RunRespond ==
  /\ task.pc # "idle"
  /\ task.pc # "done"
  /\ RunCanRespond(task, clock)
  /\ task' = RunResponded(task, clock)
  /\ last' = [op |-> "run", in |-> task.name, resp |-> task'.resp, calls |-> <<>>,
              store |-> <<>>,
              ran |-> <<RunRec(task.name, task.timeout, task.pr,
                               (clock - task.start) * 1000000)>>]
  /\ UNCHANGED <<fs, writable, globals, clock, reqs, log>>

Timeouts == {1, 2}
Deadlines == {NoDeadline, 1}
Works == 0..3
ProbeOutcomes == {[detail |-> d, err |-> e] : d \in ProbeDetails, e \in {NilErr, Err("dial timeout")}}

\* One request served by the runner, followed step by step.
NextRunner ==
  \/ \E name \in ProbeNames, timeout \in Timeouts, deadline \in Deadlines,
        polls \in BOOLEAN, work \in Works, outcome \in ProbeOutcomes :
       RunEnter(name, timeout, deadline, polls, work, outcome)
  \/ Tick
  \/ ClientCancel
  \/ ProbeReturn
  \/ RunRespond

InitRunner ==
  /\ fs = BaseFs
  /\ writable = TRUE
  /\ last = Start
  /\ globals = GlobalsOf(DatabaseAddrOnly)
  /\ InitInflight

SpecRunner == InitRunner /\ [][NextRunner]_vars

-----------------------------------------------------------------------------
(* The file store followed step by step, with requests of several clients  *)
(* in flight.  The store holds no lock: between the steps of one request   *)
(* (the filename check, each operating-system call, the response) the      *)
(* steps of another may run.  os.WriteFile is OpenFile(O_WRONLY|O_CREATE|  *)
(* O_TRUNC), Write, Close; a file removed while it is open stays writable  *)
(* through its descriptor but has no name any more.                        *)

MaxLog == 4

\* a mutant of the open of os.WriteFile: O_CREATE is missing, yet an absent
\* file is reported opened
osOpenFile_NoCreate(f, w, p) ==
  IF ~Exists(f, Parent(p)) THEN [err |-> ErrNotExist, fs |-> f]
  ELSE IF ~IsDir(f, Parent(p)) THEN [err |-> ErrNotDir, fs |-> f]
  ELSE IF IsDir(f, p) THEN [err |-> ErrIsDir, fs |-> f]
  ELSE IF ~w THEN [err |-> ErrReadOnly, fs |-> f]
  ELSE [err |-> NilErr,
        fs |-> IF p \in DOMAIN f THEN (p :> FileEntry(<<>>)) @@ f ELSE f]

\* the open of os.WriteFile: OpenFile(p, O_WRONLY|O_CREATE|O_TRUNC, 0o644)
osOpenFile(f, w, p) ==
  IF ~Exists(f, Parent(p)) THEN [err |-> ErrNotExist, fs |-> f]
  ELSE IF ~IsDir(f, Parent(p)) THEN [err |-> ErrNotDir, fs |-> f]
  ELSE IF IsDir(f, p) THEN [err |-> ErrIsDir, fs |-> f]
  ELSE IF ~w THEN [err |-> ErrReadOnly, fs |-> f]
  ELSE [err |-> NilErr, fs |-> (p :> FileEntry(<<>>)) @@ f]

\* the Write and Close of os.WriteFile on the descriptor opened for p;
\* unlinked says that the opened file was removed meanwhile, and then the
\* data reach a file that no path names
osWrite(f, p, unlinked, data) ==
  IF unlinked \/ p \notin DOMAIN f
  THEN [err |-> NilErr, fs |-> f]
  ELSE [err |-> NilErr, fs |-> (p :> FileEntry(data)) @@ f]

\* a request to the store, after its entry checks: SafeFilename for every
\* operation, and the protected set for DeleteFile
StoreEntered(op, name, content, protected, since) ==
  LET e == IF ~SafeFilename(name) THEN ErrInvalidFilename
           ELSE IF op = "DeleteFile" /\ (~protected.nil) /\ MapLookup(protected, name)
           THEN ErrProtectedFile
           ELSE NilErr
  IN [pc |-> IF e.nil THEN "checked" ELSE "done", op |-> op, name |-> name,
      content |-> content, path |-> Join(AppDataDir, name), err |-> e,
      data |-> <<>>, unlinked |-> FALSE, since |-> since]

\* the operating-system call a request makes next
StoreCallOf(q) ==
  IF q.op = "WriteFile" THEN (IF q.pc = "checked" THEN "open" ELSE "write")
  ELSE IF q.op = "ReadFile" THEN "read"
  ELSE "remove"

\* the result of that call on file system f
StoreCall(q, f, w) ==
  LET call == StoreCallOf(q)
  IN IF call = "open" THEN osOpenFile(f, w, q.path) @@ [data |-> <<>>]
     ELSE IF call = "write" THEN osWrite(f, q.path, q.unlinked, q.content) @@ [data |-> <<>>]
     ELSE IF call = "read" THEN osReadFile(f, q.path) @@ [fs |-> f]
     ELSE osRemove(f, w, q.path) @@ [data |-> <<>>]

\* the request after that call
StoreStepped(q, r) ==
  [q EXCEPT !.pc = IF StoreCallOf(q) = "open" /\ r.err.nil THEN "opened" ELSE "done",
            !.err = r.err, !.data = r.data]

\* a request of another client after this call: a successful remove
\* unlinks the file it holds open
StoreOther(o, q, r) ==
  IF StoreCallOf(q) = "remove" /\ r.err.nil /\ o.pc = "opened" /\ o.path = q.path
  THEN [o EXCEPT !.unlinked = TRUE]
  ELSE o

\* one entry of the file system's history
StoreEvent(c, q, r) ==
  [client |-> c, call |-> StoreCallOf(q), name |-> q.name, err |-> r.err,
   since |-> q.since]

StoreOpNames == {"ReadFile", "WriteFile", "DeleteFile"}
RaceNames == {<<"a">>}
RaceContents == {<<1>>}

\* client c calls a store operation
StoreBegin(c, op, name, content) ==
  /\ reqs[c].pc = "idle"
  /\ Len(log) < MaxLog
  /\ reqs' = [reqs EXCEPT ![c] =
                StoreEntered(op, name, content, globals.protectedFiles, Len(log))]
  /\ UNCHANGED <<fs, writable, last, globals, clock, task, log>>

\* the next operating-system call of c's request
StoreStep(c) ==
  /\ reqs[c].pc \in {"checked", "opened"}
  /\ LET q == reqs[c]
         r == StoreCall(q, fs, writable)
     IN /\ fs' = r.fs
        /\ reqs' = [d \in Clients |->
                      IF d = c THEN StoreStepped(q, r) ELSE StoreOther(reqs[d], q, r)]
        /\ log' = Append(log, StoreEvent(c, q, r))
  /\ UNCHANGED <<writable, last, globals, clock, task>>

\* the operation returns to c
StoreReturn(c) ==
  /\ reqs[c].pc = "done"
  /\ reqs' = [reqs EXCEPT ![c] = IdleReq]
  /\ UNCHANGED <<fs, writable, last, globals, clock, task, log>>

NextRace ==
  \/ \E c \in Clients, op \in StoreOpNames, name \in RaceNames, content \in RaceContents :
       StoreBegin(c, op, name, content)
  \/ \E c \in Clients : StoreStep(c)
  \/ \E c \in Clients : StoreReturn(c)

InitRace ==
  /\ fs = BaseFs
  /\ writable = TRUE
  /\ last = Start
  /\ globals = GlobalsOf(DatabaseAddrOnly)
  /\ InitInflight

SpecRace == InitRace /\ [][NextRace]_vars

-----------------------------------------------------------------------------
(* The checks of /api/check: database, services, metrics, file system.     *)

\* a mutant: the password is not required for the DSN
buildPostgresDSN_NoPassword(db) ==
  LET ssl == IF db.SSL = "" THEN "require" ELSE db.SSL
  IN IF db.Host = "" \/ db.Port = 0 \/ db.Name = "" \/ db.Username = ""
     THEN [dsn |-> <<>>, ok |-> FALSE]
     ELSE [dsn |-> <<"postgresql://", db.Username, ":", db.Password, "@", db.Host, ":",
                     db.Port, "/", db.Name, "?sslmode=", ssl>>,
           ok |-> TRUE]

\* buildPostgresDSN, on configuration.Config.DatabaseConfig; the DSN is the
\* sequence of the pieces that fmt.Sprintf concatenates, the port a number
\* printed by %d
buildPostgresDSN(db) ==
  LET ssl == IF db.SSL = "" THEN "require" ELSE db.SSL
  IN IF db.Host = "" \/ db.Port = 0 \/ db.Name = "" \/ db.Username = "" \/ db.Password = ""
     THEN [dsn |-> <<>>, ok |-> FALSE]
     ELSE [dsn |-> <<"postgresql://", db.Username, ":", db.Password, "@", db.Host, ":",
                     db.Port, "/", db.Name, "?sslmode=", ssl>>,
           ok |-> TRUE]

\* monitoring.DatabaseByDSN; out is how far the database lets it get
DatabaseByDSN(dsn, out) ==
  IF out = "open" THEN [detail |-> [mode |-> "dsn"], err |-> Err("sql: unknown driver")]
  ELSE IF out = "ping" THEN [detail |-> [mode |-> "dsn"], err |-> Err("connection refused")]
  ELSE IF out = "query" THEN [detail |-> [mode |-> "dsn"], err |-> Err("context deadline exceeded")]
  ELSE [detail |-> [mode |-> "dsn", nowUTC |-> 0, version |-> "16"], err |-> NilErr]

\* monitoring.DatabaseByTCP
DatabaseByTCP(addr, out) ==
  IF out # "ok"
  THEN [detail |-> [mode |-> "tcp", addr |-> addr], err |-> Err("connection refused")]
  ELSE [detail |-> [mode |-> "tcp", addr |-> addr, reachable |-> TRUE], err |-> NilErr]

\* monitoring.Metrics: readings of the runtime, never an error
Metrics(goroutines) ==
  [detail |-> [goroutines |-> goroutines, gcCount |-> 0], err |-> NilErr]

\* handler.Check; probes lists the probe functions called, dsn the DSN given
\* to the DSN probe
Check(out, elapsed) ==
  LET b == buildPostgresDSN(globals.Config.DatabaseConfig)
      addr == globals.Config.DatabaseConfig.Addr
      byDSN == DatabaseByDSN(b.dsn, out)
      byTCP == DatabaseByTCP(addr, out)
  IN IF b.ok
     THEN [resp |-> run("database", 2500, byDSN, elapsed), probes |-> <<"DatabaseByDSN">>,
           dsn |-> b.dsn, ran |-> <<RunRec("database", 2500, byDSN, elapsed)>>]
     ELSE [resp |-> run("database", 1500, byTCP, elapsed), probes |-> <<"DatabaseByTCP">>,
           dsn |-> <<>>, ran |-> <<RunRec("database", 1500, byTCP, elapsed)>>]

\* handler.Metrics
MetricsHandler(goroutines, elapsed) ==
  [resp |-> run("metrics", 800, Metrics(goroutines), elapsed), probes |-> <<"Metrics">>,
   ran |-> <<RunRec("metrics", 800, Metrics(goroutines), elapsed)>>]

\* configuration.DatabaseConfig as loadFromEnv can fill it
DatabaseConfigs ==
  [Host : {"", "db"}, Port : {0, 5432}, Name : {"", "app"}, Username : {"", "u"},
   Password : {"", "p"}, SSL : {"", "disable"}, Addr : {"db:5432"}]

DatabaseOuts == {"open", "ping", "query", "ok"}
Goroutines == {1, 8}

CheckReq(out, elapsed) ==
  LET h == Check(out, elapsed)
  IN /\ last' = [op |-> "Check", in |-> out, resp |-> h.resp, calls |-> <<>>,
                 store |-> h.probes, ran |-> h.ran, dsn |-> h.dsn]
     /\ UNCHANGED <<fs, writable, globals, inflight>>

MetricsReq(goroutines, elapsed) ==
  LET h == MetricsHandler(goroutines, elapsed)
  IN /\ last' = [op |-> "Metrics", in |-> goroutines, resp |-> h.resp, calls |-> <<>>,
                 store |-> h.probes, ran |-> h.ran]
     /\ UNCHANGED <<fs, writable, globals, inflight>>

\* The checks served with the database configured in every way.
NextCheck ==
  \/ \E out \in DatabaseOuts, elapsed \in Elapsed : CheckReq(out, elapsed)
  \/ \E goroutines \in Goroutines, elapsed \in Elapsed : MetricsReq(goroutines, elapsed)
  \/ \E now \in Times, elapsed \in Elapsed : SelfTestReq(now, elapsed)
  \/ \E items \in SeqsUpTo(EnvItems, 1) :
       \E outs \in [1..Len(ServiceUrls(items)) -> Outcomes], elapsed \in Elapsed :
         ServicesReq(items, outs, elapsed)

InitCheck ==
  /\ fs = BaseFs
  /\ writable = TRUE
  /\ last = Start
  /\ \E db \in DatabaseConfigs : globals = GlobalsOf(db)
  /\ InitInflight

SpecCheck == InitCheck /\ [][NextCheck]_vars

-----------------------------------------------------------------------------
(* The tail of the event log (monitoring.EventLogTail).  A log file is the *)
(* sequence of the lengths in bytes of its lines, each line ended by a     *)
(* newline except, when finalNewline is false, the last.  A returned line  *)
(* is [idx, from, len]: bytes from..from+len-1 of line idx of the file.    *)

MaxFileLines == 3

\* const block = 64 * 1024
block == 64 * 1024

\* bufio.MaxScanTokenSize, the buffer limit of a bufio.Scanner
MaxScanTokenSize == 64 * 1024

\* the value that replaces maxLines <= 0
DefaultMaxLines == 100

NoFile == [exists |-> FALSE, lens |-> <<>>, finalNewline |-> TRUE]
LogFile(lens, finalNewline) == [exists |-> TRUE, lens |-> lens, finalNewline |-> finalNewline]

\* the offset of the first byte of line i (for i = Len + 1: the offset after
\* the newline of the last line)
RECURSIVE LineStart(_, _)
LineStart(lens, i) == IF i <= 1 THEN 0 ELSE LineStart(lens, i - 1) + lens[i - 1] + 1

\* fi.Size()
FileSize(file) ==
  LineStart(file.lens, Len(file.lens) + 1)
    - (IF file.lens # <<>> /\ ~file.finalNewline THEN 1 ELSE 0)

\* the loop that reads blocks backwards: offset is the start of what was
\* read, count the number of lines collected (none is collected inside the
\* loop), reads the number of ReadAt calls
RECURSIVE ReadBlocks(_, _, _, _)
ReadBlocks(offset, count, maxLines, reads) ==
  IF offset > 0 /\ count < maxLines + 1
  THEN LET readSize == IF block > offset THEN offset ELSE block
       IN ReadBlocks(offset - readSize, count, maxLines, reads + 1)
  ELSE [offset |-> offset, reads |-> reads]

\* the token that bufio.ScanLines finds for line i in the bytes of the file
\* from offset on: none when the line ends before offset
LineToken(file, offset, i) ==
  LET s == LineStart(file.lens, i)
      e == s + file.lens[i]
      newline == i < Len(file.lens) \/ file.finalNewline
      from == IF offset > s THEN offset - s ELSE 0
  IN IF (newline /\ e < offset) \/ (~newline /\ e <= offset)
     THEN [some |-> FALSE, idx |-> i, from |-> 0, len |-> 0]
     ELSE [some |-> TRUE, idx |-> i, from |-> from, len |-> file.lens[i] - from]

\* for sc.Scan() { lines = append(lines, sc.Text()) }: Scan returns false at
\* the end of the input and at a token that does not fit the buffer
\* (bufio.ErrTooLong, which sc.Err() would tell, and is not asked)
RECURSIVE ScanLoop(_, _, _, _)
ScanLoop(file, offset, i, out) ==
  IF i > Len(file.lens) THEN out
  ELSE LET t == LineToken(file, offset, i)
       IN IF ~t.some THEN ScanLoop(file, offset, i + 1, out)
          ELSE IF t.len >= MaxScanTokenSize THEN out
          ELSE ScanLoop(file, offset, i + 1,
                        Append(out, [idx |-> t.idx, from |-> t.from, len |-> t.len]))

\* monitoring.EventLogTail; null says that "lines" is a nil slice
EventLogTail(file, maxLinesArg) ==
  LET maxLines == IF maxLinesArg <= 0 THEN DefaultMaxLines ELSE maxLinesArg
      rd == ReadBlocks(FileSize(file), 0, maxLines, 0)
      scanned == ScanLoop(file, rd.offset, 1, <<>>)
      kept == IF Len(scanned) > maxLines
              THEN SubSeq(scanned, Len(scanned) - maxLines + 1, Len(scanned))
              ELSE scanned
  IN IF ~file.exists
     THEN [lines |-> <<>>, null |-> FALSE, err |-> NilErr, reads |-> 0]
     ELSE [lines |-> kept, null |-> scanned = <<>>, err |-> NilErr, reads |-> rd.reads]

\* line lengths around the scanner's limit
LineLens == {0, 1, MaxScanTokenSize - 1, MaxScanTokenSize}

\* the log files: none, and files of at most MaxFileLines lines with and
\* without a newline after the last line
LogFiles ==
  {NoFile} \cup
  {LogFile(lens, nl) : lens \in SeqsUpTo(LineLens, MaxFileLines), nl \in {TRUE}} \cup
  {LogFile(lens, FALSE) : lens \in {l \in SeqsUpTo(LineLens, MaxFileLines) :
                                       l # <<>> /\ l[Len(l)] > 0}}

MaxLinesArgs == {-1, 0, 1, 2, 3}

EventLogTailCall(file, maxLinesArg) ==
  /\ last' = [op |-> "EventLogTail", file |-> file, maxLines |-> maxLinesArg,
              out |-> EventLogTail(file, maxLinesArg)]
  /\ UNCHANGED <<fs, writable, globals, inflight>>

\* One call of EventLogTail on a log file.
NextTail ==
  /\ last.op = "start"
  /\ \E file \in LogFiles, maxLinesArg \in MaxLinesArgs : EventLogTailCall(file, maxLinesArg)

InitTail ==
  /\ fs = BaseFs
  /\ writable = TRUE
  /\ last = Start
  /\ globals = GlobalsOf(DatabaseAddrOnly)
  /\ InitInflight

SpecTail == InitTail /\ [][NextTail]_vars

-----------------------------------------------------------------------------
(* The self-test followed step by step: os.WriteFile (open with O_CREATE|  *)
(* O_TRUNC, then write), os.Open, io.ReadAll, os.Remove, and the response  *)
(* of the runner.  Between its steps other requests may remove or rewrite  *)
(* the temp file, and the volume may have no space left for the data.      *)

ErrNoSpace == Err("no space left on device")

\* the Write and Close of os.WriteFile; space says whether the volume has
\* room for the data
osWriteFd(f, p, unlinked, data, space) ==
  IF ~space THEN [err |-> ErrNoSpace, fs |-> f] ELSE osWrite(f, p, unlinked, data)

\* FilesystemSelfTest entered at clock reading now; created: the open made
\* a file that was not there; unlinked, held: the file held open was
\* removed, and its content then; gone: the path is absent after os.Remove;
\* changed: a step of this self-test changed the file system
SelfTestEntered(now) ==
  [pc |-> "entered", now |-> now, name |-> SelfTestName(now),
   path |-> Join(AppDataDir, SelfTestName(now)), content |-> SelfTestContent(now),
   created |-> FALSE, unlinked |-> FALSE, held |-> <<>>, got |-> <<>>,
   detail |-> NilDetail, err |-> NilErr, gone |-> FALSE, changed |-> FALSE]

\* os.WriteFile, the open
SelfTestCreated(t, f, w) ==
  LET r == osOpenFile(f, w, t.path)
  IN [fs |-> r.fs,
      task |-> IF r.err.nil
               THEN [t EXCEPT !.pc = "created", !.created = ~Exists(f, t.path)]
               ELSE [t EXCEPT !.pc = "done", !.err = r.err,
                              !.detail = [step |-> "write", path |-> t.path]]]

\* os.WriteFile, the write and close
SelfTestWritten(t, f, space) ==
  LET r == osWriteFd(f, t.path, t.unlinked, t.content, space)
  IN [fs |-> r.fs,
      task |-> IF r.err.nil
               THEN [t EXCEPT !.pc = "written", !.unlinked = FALSE, !.held = <<>>]
               ELSE [t EXCEPT !.pc = "done", !.err = r.err, !.unlinked = FALSE,
                              !.held = <<>>,
                              !.detail = [step |-> "write", path |-> t.path]]]

\* os.Open
SelfTestOpened(t, f) ==
  [fs |-> f,
   task |-> IF Exists(f, t.path)
            THEN [t EXCEPT !.pc = "opened"]
            ELSE [t EXCEPT !.pc = "done", !.err = ErrNotExist,
                           !.detail = [step |-> "open", path |-> t.path]]]

\* io.ReadAll
SelfTestRead(t, f) ==
  [fs |-> f,
   task |-> [t EXCEPT !.pc = "read", !.unlinked = FALSE, !.held = <<>>,
                      !.got = IF t.unlinked THEN t.held ELSE f[t.path].data]]

\* os.Remove and the Detail returned
SelfTestRemoved(t, f, w) ==
  LET rm == osRemove(f, w, t.path)
  IN [fs |-> rm.fs,
      task |-> [t EXCEPT !.pc = "done", !.err = NilErr, !.gone = ~Exists(rm.fs, t.path),
                         !.detail = [dir |-> AppDataDir, file |-> t.name,
                                     writeBytes |-> Len(t.content),
                                     readBytes |-> Len(t.got),
                                     match |-> (t.got = t.content),
                                     deleteErr |-> errString(rm.err)]]]

\* the next step of the self-test
SelfTestStepped(t, f, w, space) ==
  IF t.pc = "entered" THEN SelfTestCreated(t, f, w)
  ELSE IF t.pc = "created" THEN SelfTestWritten(t, f, space)
  ELSE IF t.pc = "written" THEN SelfTestOpened(t, f)
  ELSE IF t.pc = "opened" THEN SelfTestRead(t, f)
  ELSE SelfTestRemoved(t, f, w)

SelfTestEnter(now) ==
  /\ task.pc = "idle"
  /\ task' = SelfTestEntered(now)
  /\ UNCHANGED <<fs, writable, last, globals, clock, reqs, log>>

SelfTestStep(space) ==
  /\ task.pc \in {"entered", "created", "written", "opened", "read"}
  /\ LET r == SelfTestStepped(task, fs, writable, space)
     IN fs' = r.fs /\ task' = [r.task EXCEPT !.changed = @ \/ r.fs # fs]
  /\ UNCHANGED <<writable, last, globals, clock, reqs, log>>

\* handler.run writes the envelope of the self-test
SelfTestRespond(elapsed) ==
  /\ task.pc = "done"
  /\ LET pr == [detail |-> task.detail, err |-> task.err]
     IN last' = [op |-> "FilesystemSelfTest", in |-> task.now,
                 resp |-> run("fs-selftest", 1500, pr, elapsed), calls |-> <<>>,
                 store |-> <<"FilesystemSelfTest">>,
                 ran |-> <<RunRec("fs-selftest", 1500, pr, elapsed)>>]
  /\ task' = IdleTask
  /\ UNCHANGED <<fs, writable, globals, clock, reqs, log>>

\* another request removes the temp file of clock reading now (DeleteFile)
OtherRemove(now) ==
  LET p == Join(AppDataDir, SelfTestName(now))
      r == osRemove(fs, writable, p)
  IN /\ r.err.nil
     /\ fs' = r.fs
     /\ task' = IF task.pc \in {"created", "opened"} /\ task.path = p
                THEN [task EXCEPT !.unlinked = TRUE, !.held = fs[p].data]
                ELSE task
     /\ UNCHANGED <<writable, last, globals, clock, reqs, log>>

\* another request writes a file of that name (WriteFile)
OtherWrite(now, content) ==
  LET p == Join(AppDataDir, SelfTestName(now))
      r == osWriteFile(fs, writable, p, content)
  IN /\ r.err.nil
     /\ fs' = r.fs
     /\ UNCHANGED <<writable, last, globals, inflight>>

OtherContents == {<<"x">>}

\* One self-test at a time, step by step, among other requests.
NextSelfTest ==
  \/ \E now \in Times : SelfTestEnter(now)
  \/ \E space \in BOOLEAN : SelfTestStep(space)
  \/ \E elapsed \in Elapsed : SelfTestRespond(elapsed)
  \/ \E now \in Times : OtherRemove(now)
  \/ \E now \in Times, content \in OtherContents : OtherWrite(now, content)

InitSelfTest ==
  /\ fs \in InitDirs
  /\ writable \in BOOLEAN
  /\ last = Start
  /\ globals = GlobalsOf(DatabaseAddrOnly)
  /\ InitInflight

SpecSelfTest == InitSelfTest /\ [][NextSelfTest]_vars

\* The handlers serving requests one at a time, the self-test step by step.
NextRequests ==
  \/ task.pc = "idle" /\ \E q \in RawQueries : DataReadTextReq(q)
  \/ task.pc = "idle" /\ \E q \in RawQueries, elapsed \in Elapsed : DataDeleteReq(q, elapsed)
  \/ task.pc = "idle" /\ \E elapsed \in Elapsed : DataListReq(elapsed)
  \/ task.pc = "idle" /\ \E name \in ProbeNames, detail \in ProbeDetails, err \in ProbeErrs,
                            elapsed \in Elapsed : RunProbe(name, detail, err, elapsed)
  \/ \E now \in Times : SelfTestEnter(now)
  \/ \E space \in BOOLEAN : SelfTestStep(space)
  \/ \E elapsed \in Elapsed : SelfTestRespond(elapsed)

InitRequests ==
  /\ fs \in {BaseFs, BaseFs @@ (Join(AppDataDir, <<"a">>) :> FileEntry(<<0>>))}
  /\ writable \in BOOLEAN
  /\ last = Start
  /\ globals = GlobalsOf(DatabaseAddrOnly)
  /\ InitInflight

SpecRequests == InitRequests /\ [][NextRequests]_vars

-----------------------------------------------------------------------------
(* Claims *)

StoreOps == {"ReadFile", "WriteFile", "DeleteFile"}

\* a single path segment: no separator, and none of "", "." and ".."
SingleSegment(name) ==
  /\ name \notin {<<>>, <<".">>, <<".", ".">>}
  /\ ~Contains(name, <<Sep>>)

\* C1: SafeFilename and safeFilename return false for every name that
\* contains "/", that contains "..", or that is "", "." or "..", and return
\* true only for a name that is its own last path segment.
C1_SafeNameRejects ==
  last.op \in {"SafeFilename", "safeFilename"} =>
    /\ (Contains(last.name, <<Sep>>) \/ Contains(last.name, <<".", ".">>)
          \/ last.name \in {<<>>, <<".">>, <<".", ".">>}) => ~last.ok
    /\ last.ok => Base(last.name) = last.name

\* C2: a store operation given a name on which SafeFilename is false returns
\* the "invalid filename" error, makes no operating-system call and leaves
\* every file and its content as it was, whatever the directory holds and
\* whatever protected set is passed.
C2_UnsafeNameNoAccess ==
  [][(last'.op \in StoreOps /\ ~SafeFilename(last'.name)) =>
       /\ last'.out.err = ErrInvalidFilename
       /\ last'.out.detail = NilDetail
       /\ last'.out.calls = <<>>
       /\ fs' = fs]_vars

C2_Witness ==
  \E op \in StoreOps :
    /\ last.op = op
    /\ last.name = Traversal
    /\ last.out.err = ErrInvalidFilename
    /\ Join(AppDataDir, <<"a">>) \in DOMAIN fs

\* C3: for a single-segment name that the protected set passed to DeleteFile
\* does not hold: a ReadFile that follows a successful WriteFile of the name
\* returns exactly the content written and its length, whether or not the
\* file existed; a DeleteFile that follows a successful WriteFile removes the
\* file; a ReadFile that follows a successful DeleteFile fails with not-found.
C3_RoundTrip ==
  [][/\ (/\ last.op = "WriteFile" /\ last.out.err.nil /\ SingleSegment(last.name)
         /\ last'.op = "ReadFile" /\ last'.name = last.name) =>
          /\ last'.out.err.nil
          /\ last'.out.detail.content = last.content
          /\ last'.out.detail.bytes = Len(last.content)
          /\ last.out.detail.bytes = Len(last.content)
     /\ (/\ last.op = "WriteFile" /\ last.out.err.nil /\ SingleSegment(last.name)
         /\ last'.op = "DeleteFile" /\ last'.name = last.name
         /\ ~MapLookup(last'.protected, last'.name)) =>
          /\ last'.out.err.nil
          /\ Join(AppDataDir, last.name) \notin DOMAIN fs'
     /\ (/\ last.op = "DeleteFile" /\ last.out.err.nil /\ SingleSegment(last.name)
         /\ last'.op = "ReadFile" /\ last'.name = last.name) =>
          /\ last'.out.err = ErrNotExist
          /\ last'.out.detail = NilDetail]_vars

\* a file that existed with another content was written, and is there with
\* the new content
C3_Witness ==
  /\ last.op = "WriteFile"
  /\ last.name = <<"a">>
  /\ last.out.err.nil
  /\ last.content = <<1>>
  /\ ReadFile(fs, AppDataDir, <<"a">>).detail.content = <<1>>

ProtectedPaths == {Join(AppDataDir, n) : n \in DOMAIN protectedFiles.m}

\* C4: no step of the service removes a file whose name is in the protected
\* set, and every delete of such a name is refused: 403 at the DataDelete
\* route (and main.go's), ErrProtectedFile from DeleteFile called with the
\* protected set, also when no such file exists.
C4_ProtectedNeverDeleted ==
  [][/\ \A p \in ProtectedPaths : p \in DOMAIN fs => (p \in DOMAIN fs' /\ fs'[p] = fs[p])
     /\ (last'.op = "DataDelete"
           /\ MapLookup(protectedFiles, TrimSpace(Query(last'.in)))) =>
          /\ last'.resp.code = 403
          /\ last'.calls = <<>>
          /\ last'.store = <<>>
     /\ (last'.op = "MainDataDelete" /\ MapLookup(protectedFiles, Query(last'.in))) =>
          /\ last'.resp.code = 403
          /\ last'.calls = <<>>
     /\ (last'.op = "DeleteFile" /\ last'.protected = protectedFiles
           /\ MapLookup(protectedFiles, last'.name)) =>
          /\ last'.out.err = ErrProtectedFile
          /\ last'.out.calls = <<>>]_vars

\* a delete of lost+found was refused by the store while no such file exists
C4_Witness ==
  /\ last.op = "DeleteFile"
  /\ last.name = LostFound
  /\ last.out.err = ErrProtectedFile
  /\ Join(AppDataDir, LostFound) \notin DOMAIN fs
  /\ Join(AppDataDir, FirstMount) \in DOMAIN fs

HasRun == last.op \in {"run", "DataDelete", "FilesystemSelfTest"} /\ last.ran # <<>>

\* C5: the runner answers a probe that returned (detail, nil) with 200,
\* status "ok", the name given, latencyMs >= 0 and that detail; a probe that
\* returned (detail, err) with 503, status "error", err's message and the
\* detail the probe returned, nil or partial.
C5_RunnerEnvelope ==
  HasRun =>
    \A i \in 1..Len(last.ran) :
      LET rec == last.ran[i]
          body == last.resp.body
      IN /\ last.resp = rec.resp
         /\ body.name = rec.name
         /\ body.latencyMs >= 0
         /\ body.latencyMs * 1000000 <= rec.elapsed
         /\ body.detail = rec.detail
         /\ rec.err.nil => (last.resp.code = 200 /\ body.status = "ok")
         /\ ~rec.err.nil =>
              /\ last.resp.code = 503
              /\ body.status = "error"
              /\ body.error = ErrorMsg(rec.err)

\* a probe failed with a partial detail
C5_Witness ==
  /\ last.op = "run"
  /\ last.resp.code = 503
  /\ last.resp.body.detail # NilDetail
  /\ last.resp.body.error = "dial timeout"
  /\ last.resp.body.latencyMs = 1

\* C6: in every envelope, status is "error" exactly when the probe's error
\* is non-nil, the error field is present exactly when status is "error", the
\* code is 503 exactly when status is "error" and 200 exactly when it is "ok".
C6_EnvelopeInvariant ==
  HasRun =>
    \A i \in 1..Len(last.ran) :
      LET rec == last.ran[i]
          body == rec.resp.body
      IN /\ body.status \in {"ok", "error"}
         /\ (body.status = "error") <=> ~rec.err.nil
         /\ ("error" \in DOMAIN body) <=> (body.status = "error")
         /\ (rec.resp.code = 503) <=> (body.status = "error")
         /\ (rec.resp.code = 200) <=> (body.status = "ok")

\* a probe failed with an error whose message is empty
C6_Witness ==
  /\ last.op = "run"
  /\ last.ran[1].err = Err("")
  /\ last.resp.body.status = "error"
  /\ last.resp.body.error = ""

Is2xx(o) == o.kind = "resp" /\ o.code >= 200 /\ o.code < 300

\* C7: the Services probe returns an error exactly when some URL failed or
\* answered non-2xx, its detail reports an outcome of every URL of the list
\* ("ok" for 2xx, "error" for a failed fetch; for a URL listed twice, the
\* outcome of one of its fetches), and every URL of the list is fetched.
C7_ServicesReportsEveryUrl ==
  last.op = "Services" =>
    /\ ~last.probe.panic
    /\ last.probe.gets = last.urls
    /\ (~last.probe.err.nil) <=> (\E i \in 1..Len(last.urls) : ~Is2xx(last.outs[i]))
    /\ "services" \in DOMAIN last.probe.detail
    /\ \A i \in 1..Len(last.urls) :
         /\ last.urls[i] \in DOMAIN last.probe.detail.services
         /\ \E j \in 1..Len(last.urls) :
              /\ last.urls[j] = last.urls[i]
              /\ Is2xx(last.outs[j]) =>
                   last.probe.detail.services[last.urls[i]].status = "ok"
              /\ last.outs[j].kind = "fail" =>
                   last.probe.detail.services[last.urls[i]].status = "error"
              /\ (last.outs[j].kind = "resp" /\ ~Is2xx(last.outs[j])) =>
                   last.probe.detail.services[last.urls[i]].status \notin {"ok", "error"}

\* whether files can be created in (and removed from) directory dir
DirWritable(f, w, dir) == w /\ IsDir(f, dir)

LostFoundEncoded == <<"l", "o", "s", "t", "%", "2", "B", "f", "o", "u", "n", "d">>

ProtectedBody(name) ==
  [error |-> <<"\"">> \o name \o <<"\"", " is protected and cannot be deleted">>]

\* C9 as stated: DELETE /data?file=lost+found is answered with 403 and the
\* body {"error": "\"lost+found\" is protected and cannot be deleted"}, and
\* the store's delete is not invoked.
C9_Original ==
  (last.op = "DataDelete" /\ last.in = Param(LostFound)) =>
    /\ last.resp.code = 403
    /\ last.resp.body = ProtectedBody(LostFound)
    /\ last.store = <<>>

\* C9 amended: with the name percent-encoded, DELETE /data?file=lost%2Bfound
\* is answered by handler.DataDelete with 403 and that body, and by main.go's
\* handler with 403 and the fixed message, and nothing is deleted or invoked.
C9_ProtectedDelete403 ==
  /\ (last.op = "DataDelete" /\ last.in = Param(LostFoundEncoded)) =>
       /\ last.resp.code = 403
       /\ last.resp.kind = "json"
       /\ last.resp.body = ProtectedBody(LostFound)
       /\ last.store = <<>>
       /\ last.calls = <<>>
       /\ last.ran = <<>>
  /\ (last.op = "MainDataDelete" /\ last.in = Param(LostFoundEncoded)) =>
       /\ last.resp.code = 403
       /\ last.resp.body = [error |-> "file is protected and cannot be deleted"]
       /\ last.calls = <<>>

C9_Witness ==
  /\ last.op = "DataDelete"
  /\ last.in = Param(LostFoundEncoded)
  /\ last.resp.code = 403
  /\ Join(AppDataDir, LostFound) \in DOMAIN fs

ReadOps == {"DataReadText", "MainDataRead"}

\* the name is a traversal: it holds a separator or a ".." element
IsTraversal(name) == Contains(name, <<Sep>>) /\ Contains(name, <<".", ".">>)

\* C10: GET /data/read answers 200 only with the content of a file that is a
\* direct child of the data directory, whatever the file parameter; a
\* traversal name is answered with 400 or 404, and no response carries the
\* content of the file outside the data directory.
C10_ReadStaysInDataDir ==
  last.op \in ReadOps =>
    /\ last.resp.code = 200 =>
         \E p \in DOMAIN fs :
           /\ Parent(p) = AppDataDir
           /\ p # AppDataDir
           /\ ~fs[p].isDir
           /\ last.resp.body = fs[p].data
           /\ last.calls = <<<<"ReadFile", p>>>>
    /\ IsTraversal(Query(last.in)) => last.resp.code \in {400, 404}
    /\ \A i \in 1..Len(last.calls) : last.calls[i][2] # OutsidePath
    /\ last.resp.kind = "data" => last.resp.body # Secret

\* an encoded traversal to the outside file was refused
C10_Witness ==
  /\ last.op = "DataReadText"
  /\ last.in = Param(<<".", ".", "%", "2", "F", "p">>)
  /\ last.resp.code = 404
  /\ last.resp.body = "invalid filename"
  /\ OutsidePath \in DOMAIN fs

FileOps == {"DataReadText", "MainDataRead", "DataDelete", "MainDataDelete"}

\* the file name a request names: main.go takes the decoded parameter, the
\* handler package trims it first
ReqName(l) ==
  IF l.op \in {"DataReadText", "DataDelete"} THEN TrimSpace(Query(l.in)) ELSE Query(l.in)

\* C11: every read or delete request whose file parameter is missing, or
\* names something that is not a single safe segment, is answered with 400.
C11_InvalidInputIs400 ==
  (last.op \in FileOps /\ ((~last.in.present) \/ ~SingleSegment(Query(last.in)))) =>
    last.resp.code = 400

\* C12: a read or delete of a safe, unprotected name for which the data
\* directory holds no file is answered with 404, and a 404 is given only
\* when the name is safe and no such file exists.
C12_NotFoundIs404 ==
  [][last'.op \in FileOps =>
       LET name == ReqName(last')
           absent == SingleSegment(name) /\ ~Exists(fs, Join(AppDataDir, name))
       IN /\ (absent /\ ~MapLookup(protectedFiles, name)) => last'.resp.code = 404
          /\ last'.resp.code = 404 => absent]_vars

\* C13: a list of a data directory that cannot be read, and a removal that
\* fails although the file is there, are answered with 500; 503 is given
\* only by the checks (the runner around a probe), never by a file operation
\* that reached the file system.
C13_IoFailureIs500 ==
  /\ (last.op \in {"DataList", "MainDataList"} /\ ~IsDir(fs, AppDataDir)) =>
       last.resp.code = 500
  /\ (last.op \in {"DataDelete", "MainDataDelete"}
        /\ last.calls = <<<<"Remove", Join(AppDataDir, ReqName(last))>>>>
        /\ Exists(fs, Join(AppDataDir, ReqName(last)))) =>
       last.resp.code = 500
  /\ (last.op \in FileOps \cup {"DataList", "MainDataList"} /\ last.calls # <<>>) =>
       last.resp.code # 503

\* C14: the context the runner hands to the probe has a deadline no later
\* than the start plus the timeout and no later than the request's own, and
\* is done once the request's context is cancelled; the envelope is written
\* only after the probe has returned, never while it runs, also when the
\* deadline has passed; a probe that does not observe the context returns
\* only at its own completion, with its own result.
C14_CooperativeCancellation ==
  task.pc # "idle" =>
    /\ task.ctx.deadline <= task.start + task.timeout
    /\ task.parent.deadline # NoDeadline => task.ctx.deadline <= task.parent.deadline
    /\ task.parent.cancelled => CtxDone(task, clock)
    /\ task.pc = "probe" => (task.resp = NoResp /\ task.returnedAt = -1)
    /\ task.resp # NoResp =>
         /\ task.pc = "done"
         /\ task.returnedAt >= task.start
         /\ task.respondedAt >= task.returnedAt
         /\ task.resp = run(task.name, task.timeout, task.pr,
                            (task.respondedAt - task.start) * 1000000)
    /\ (~task.polls /\ task.returnedAt # -1) =>
         /\ task.returnedAt >= task.start + task.work
         /\ task.pr = task.outcome

\* a probe that does not observe the context ran past the deadline to its
\* own completion, and the runner then answered 200
C14_Witness ==
  /\ task.pc = "done"
  /\ ~task.polls
  /\ task.returnedAt > task.ctx.deadline
  /\ task.resp.code = 200
  /\ task.work > task.timeout
  /\ task.resp.body.latencyMs > task.timeout


\* entry j is the first operating-system call of c's next request after
\* the one that made entry i
FollowsOwn(i, j) ==
  /\ i < j
  /\ log[i].client = log[j].client
  /\ \A m \in (i+1)..(j-1) : log[m].client # log[i].client

\* entry i: a write of name n completed with success
WroteOk(i, n) == log[i].call = "write" /\ log[i].name = n /\ log[i].err.nil

\* entry j: a read of name n failed because no file has that name
ReadNotFound(j, n) == log[j].call = "read" /\ log[j].name = n /\ log[j].err = ErrNotExist

\* entry k: another client than c removed name n
RemovedByOther(k, c, n) ==
  /\ log[k].call = "remove"
  /\ log[k].client # c
  /\ log[k].name = n
  /\ log[k].err.nil

\* C15: the store holds no lock, so the steps of requests of different
\* clients interleave; a read that follows the same client's successful
\* write of the name and fails with not-found is explained by a successful
\* remove of that name by another client's request, run after the write
\* opened the file and before the read
C15_ReadAfterWriteRace ==
  \A i \in 1..Len(log), j \in 1..Len(log) :
    (FollowsOwn(i, j) /\ WroteOk(i, log[i].name) /\ ReadNotFound(j, log[i].name)) =>
      \E o \in 1..(i-1) :
        /\ log[o].client = log[i].client /\ log[o].call = "open"
        /\ log[o].name = log[i].name /\ log[o].err.nil
        /\ \E k \in (o+1)..(j-1) : RemovedByOther(k, log[i].client, log[i].name)

\* client 1's write succeeded, client 2's delete, already in flight while
\* the write ran, removed the file, and client 1's following read failed
\* with not-found
C15_Witness ==
  \E i \in 1..Len(log), k \in 1..Len(log), j \in 1..Len(log) :
    /\ i < k /\ k < j
    /\ FollowsOwn(i, j)
    /\ WroteOk(i, <<"a">>) /\ ReadNotFound(j, <<"a">>)
    /\ RemovedByOther(k, log[i].client, <<"a">>)
    /\ log[k].since < i
    /\ log[j].since >= k

\* the names a map[string]bool holds with the value true
TrueKeys(map) == IF map.nil THEN {} ELSE {n \in DOMAIN map.m : map.m[n]}

\* C16: the protected filename set (of the handler package and of main.go)
\* is {.first-mount.sh, lost+found} in every reachable state, and the loaded
\* configuration is the one of process start: no handler, runner or store
\* operation changes either
C16_ProtectedSetImmutable ==
  /\ ~globals.protectedFiles.nil
  /\ DOMAIN globals.protectedFiles.m = {FirstMount, LostFound}
  /\ TrueKeys(globals.protectedFiles) = {FirstMount, LostFound}
  /\ TrueKeys(globals.mainProtectedFiles) = {FirstMount, LostFound}
  /\ DOMAIN globals.mainProtectedFiles.m = {FirstMount, LostFound}
  /\ globals.Config = ConfigOf(DatabaseAddrOnly)

\* a delete request handed the package's map to DeleteFile, which removed
\* the file
C16_Witness ==
  /\ last.op = "DataDelete"
  /\ last.store = <<"DeleteFile">>
  /\ last.resp.code = 200
  /\ last.calls # <<>>
  /\ C16_ProtectedSetImmutable

\* host, port, database name, user and password are all configured
DSNConfigured(db) ==
  db.Host # "" /\ db.Port # 0 /\ db.Name # "" /\ db.Username # "" /\ db.Password # ""

\* C17: the database check runs exactly one probe through the runner: the
\* DSN probe with 2500ms when host, port, name, user and password are all
\* configured (the DSN carrying them, with ssl mode "require" unless one is
\* configured), else the TCP probe with 1500ms on the configured address;
\* services runs with 2500ms, metrics with 800ms, the self-test with 1500ms
C17_CheckTimeouts ==
  LET db == globals.Config.DatabaseConfig
  IN /\ last.op = "Check" =>
          /\ Len(last.store) = 1 /\ Len(last.ran) = 1
          /\ last.ran[1].name = "database"
          /\ last.resp = last.ran[1].resp
          /\ DSNConfigured(db) <=> last.store = <<"DatabaseByDSN">>
          /\ (~DSNConfigured(db)) <=> last.store = <<"DatabaseByTCP">>
          /\ last.store = <<"DatabaseByDSN">> =>
                /\ last.ran[1].timeout = 2500
                /\ last.ran[1].detail.mode = "dsn"
                /\ last.dsn = <<"postgresql://", db.Username, ":", db.Password, "@",
                                db.Host, ":", db.Port, "/", db.Name, "?sslmode=",
                                IF db.SSL = "" THEN "require" ELSE db.SSL>>
          /\ last.store = <<"DatabaseByTCP">> =>
                /\ last.ran[1].timeout = 1500
                /\ last.ran[1].detail.mode = "tcp"
                /\ last.ran[1].detail.addr = db.Addr
     /\ last.op = "Services" =>
          \A i \in 1..Len(last.ran) :
            last.ran[i].timeout = 2500 /\ last.ran[i].name = "services"
     /\ last.op = "Metrics" =>
          Len(last.ran) = 1 /\ last.ran[1].timeout = 800 /\ last.ran[1].name = "metrics"
     /\ last.op = "FilesystemSelfTest" =>
          Len(last.ran) = 1 /\ last.ran[1].timeout = 1500 /\ last.ran[1].name = "fs-selftest"

\* a database check with everything but the ssl mode configured ran the DSN
\* probe, with ssl mode "require" and 2500ms
C17_Witness ==
  /\ last.op = "Check"
  /\ DSNConfigured(globals.Config.DatabaseConfig)
  /\ globals.Config.DatabaseConfig.SSL = ""
  /\ last.store = <<"DatabaseByDSN">>
  /\ last.ran[1].timeout = 2500
  /\ last.dsn[Len(last.dsn)] = "require"
  /\ last.resp.code = 200

\* C18: no retries: one services request invokes the probe at most once
\* through the runner, and the probe issues exactly one GET per element of
\* the URL list, in list order, whatever the outcome of each GET
C18_OneGetPerUrl ==
  last.op = "Services" =>
    /\ Len(last.ran) <= 1
    /\ Len(last.probe.gets) = Len(last.urls)
    /\ \A i \in 1..Len(last.urls) : last.probe.gets[i] = last.urls[i]

\* C19: DeleteFile checks the filename first (invalid filename, also for a
\* name the protected set holds), then the protected set (ErrProtectedFile);
\* when either check fails it makes no operating-system call and the file
\* system is unchanged; otherwise it attempts exactly the removal of
\* dir/name, returns the error of the removal when it fails, and on success
\* the path is absent and the result names it.  A nil map protects nothing,
\* and so does an entry whose value is false.
C19_DeleteOrder ==
  [][last'.op = "DeleteFile" =>
       LET n == last'.name
           pm == last'.protected
           p == Join(AppDataDir, n)
           out == last'.out
           held == (~pm.nil) /\ n \in DOMAIN pm.m /\ pm.m[n]
       IN /\ (~SafeFilename(n)) =>
               out.err = ErrInvalidFilename /\ out.calls = <<>> /\ fs' = fs
          /\ (SafeFilename(n) /\ held) =>
               out.err = ErrProtectedFile /\ out.calls = <<>> /\ fs' = fs
          /\ (SafeFilename(n) /\ ~held) =>
               /\ out.calls = <<<<"Remove", p>>>>
               /\ out.err \notin {ErrInvalidFilename, ErrProtectedFile}
               /\ (~Exists(fs, p)) => out.err = ErrNotExist
               /\ (Exists(fs, p) /\ ~writable) => out.err = ErrReadOnly
               /\ (~out.err.nil) => (fs' = fs /\ out.detail = NilDetail)
               /\ out.err.nil =>
                    /\ Exists(fs, p) /\ ~Exists(fs', p)
                    /\ out.detail = [deleted |-> p]
                    /\ DOMAIN fs' = DOMAIN fs \ {p}
                    /\ \A q \in DOMAIN fs' : fs'[q] = fs[q]]_vars

\* DeleteFile refused an unsafe name that the caller's map holds as
\* protected: with "invalid filename", not ErrProtectedFile
C19_Witness ==
  /\ last.op = "DeleteFile"
  /\ ~SafeFilename(last.name)
  /\ MapLookup(last.protected, last.name)
  /\ last.out.err = ErrInvalidFilename
  /\ last.out.calls = <<>>

\* the lines that maxLinesArg asks for
TailWanted(maxLinesArg) == IF maxLinesArg <= 0 THEN DefaultMaxLines ELSE maxLinesArg

\* C20: EventLogTail returns, in file order and each whole, the last
\* min(maxLines, n) lines of a log file of n lines (maxLines <= 0 counting
\* as 100), with no error; for a file that does not exist an empty list
\* and no error; the backward loop ends after one read per block of the file
C20_TailReturnsLastLines ==
  last.op = "EventLogTail" =>
    LET file == last.file
        n == Len(file.lens)
        m == TailWanted(last.maxLines)
        k == IF m < n THEN m ELSE n
        out == last.out
    IN /\ out.err.nil
       /\ Len(out.lines) <= m
       /\ (~file.exists) => (out.lines = <<>> /\ ~out.null /\ out.reads = 0)
       /\ file.exists =>
            /\ out.reads * block >= FileSize(file)
            /\ (out.reads - 1) * block < FileSize(file) \/ out.reads = 0
            /\ Len(out.lines) = k
            /\ \A i \in 1..Len(out.lines) :
                 out.lines[i] = [idx |-> n - k + i, from |-> 0, len |-> file.lens[n - k + i]]

\* the self-test moves: it is entered, takes a step, or is answered
SelfTestMoved == task'.pc # task.pc

\* the path of the temp file of the self-test that moves
SelfTestPath == IF task.pc = "idle" THEN task'.path ELSE task.path

\* FilesystemSelfTest returns
SelfTestReturns == task'.pc = "done" /\ task.pc # "done"

\* every file other than the temp file is as it was
SelfTestFrame ==
  \A q \in (DOMAIN fs \cup DOMAIN fs') \ {SelfTestPath} :
    q \in DOMAIN fs /\ q \in DOMAIN fs' /\ fs'[q] = fs[q]

\* returned with deleteErr "": the temp file is gone
SelfTestDeleted ==
  (SelfTestReturns /\ "deleteErr" \in DOMAIN task'.detail /\ task'.detail.deleteErr = "") =>
    (~Exists(fs', task.path) /\ task'.gone)

\* the error returned is nil exactly when write, open and read succeeded,
\* whatever match and deleteErr are, and the runner then answers 200 "ok"
SelfTestNilErr ==
  /\ SelfTestReturns =>
       /\ task'.err.nil <=> task.pc = "read"
       /\ task.pc = "read" =>
            /\ task'.detail.match = (task.got = task.content)
            /\ task'.detail.deleteErr # "" => fs' = fs
  /\ (task.pc = "done" /\ task'.pc = "idle") =>
       /\ last'.resp.code = (IF task.err.nil THEN 200 ELSE 503)
       /\ last'.resp.body.status = (IF task.err.nil THEN "ok" ELSE "error")
       /\ last'.resp.body.detail = task.detail

\* FilesystemSelfTest returns at the write step
SelfTestStopsAtWrite ==
  SelfTestReturns /\ "step" \in DOMAIN task'.detail /\ task'.detail.step = "write"

\* C21 as stated: a self-test that returns with deleteErr "" has removed
\* its temp file, its steps leave every other file unchanged, it returns a
\* nil error whenever write, open and read succeeded, and when it stops at
\* the write step no file was created
C21_SelfTestLeavesNoFile ==
  [][SelfTestMoved =>
       /\ SelfTestFrame
       /\ SelfTestDeleted
       /\ SelfTestNilErr
       /\ SelfTestStopsAtWrite => ~task'.created]_vars

\* What holds of a stop at the write step: no file is created when the open
\* of os.WriteFile failed; when the open succeeded and the write of the data
\* failed, the file the open created is left in the directory
SelfTestEffect ==
  [][SelfTestMoved =>
       /\ SelfTestFrame
       /\ SelfTestDeleted
       /\ SelfTestNilErr
       /\ SelfTestStopsAtWrite =>
            /\ fs' = fs
            /\ ~task'.err.nil
            /\ task.pc = "entered" => ~task'.created
            /\ task.pc = "created" =>
                 /\ task'.err = ErrNoSpace
                 /\ task'.created = task.created
                 /\ (~task.unlinked) => Exists(fs', task.path)]_vars

\* the request answered by this step changed the data directory: a step of
\* the self-test did, or the handler served in one step did
RequestChangedDir == IF task.pc = "done" THEN task.changed ELSE fs' # fs

\* the request is answered by this step: a handler served in one step, or
\* the response of the self-test
RequestAnswered == task'.pc = "idle" /\ task.pc \in {"idle", "done"}

\* C22: a request handled by DataDelete, DataReadText or a handler that goes
\* through the runner is answered once, with the response of its control
\* path (400 missing parameter, 403 protected name, 404, 503 probe error,
\* 200 success); the runner's response depends on nothing but what it is
\* given and what the probe returns; and unless the response is a successful
\* delete or self-test the request has not changed the data directory
C22_OneResponseNoSideEffect ==
  [][RequestAnswered =>
       /\ last'.resp.kind # "none"
       /\ last'.resp.code \in {200, 400, 403, 404, 503}
       /\ Len(last'.ran) <= 1
       /\ \A i \in 1..Len(last'.ran) :
            LET rec == last'.ran[i]
            IN last'.resp = run(rec.name, rec.timeout,
                                [detail |-> rec.detail, err |-> rec.err], rec.elapsed)
       /\ last'.ran = <<>> => last'.op \in {"DataReadText", "DataDelete"}
       /\ (~(last'.resp.code = 200 /\ last'.op \in {"DataDelete", "FilesystemSelfTest"})) =>
            ~RequestChangedDir]_vars

=============================================================================
